---------------------------- MODULE Spec2Model ----------------------------
(***************************************************************************)
(* A model of the reactive key/value fabric: the single-threaded router    *)
(* (actor.rs), the reactive node actor with its Wound-Wait lock table      *)
(* (reactive.rs, reactive/held_locks.rs), the definition batch search      *)
(* (reactive/definition.rs), and the manager's transactions                *)
(* (old-manager.rs, manager/transaction.rs).                               *)
(***************************************************************************)
EXTENDS Integers, Sequences, FiniteSets, TLC

VARIABLES
    nodes,      \* Address -> Reactive: the state of every reactive node
    actors,     \* System.actors: the set of registered addresses
    queue,      \* System.queue: FIFO of QueuedMessage [sender, target, message]
    panicked,   \* a handler panicked (panic!, todo!, unwrap on None): the process is gone
    cl,         \* the driver clients: TxId -> node -> phase of the lock protocol
    lastH,      \* history: the last message a reactive node handled, its state before, what it sent
    holding,    \* history: node -> the grants (txid, kind) sent and not yet released or aborted
    preempts    \* history: node -> txid -> Preempt{txid} sent while txid holds its current grant

vars == <<nodes, actors, queue, panicked, cl, lastH, holding, preempts>>

---------------------------------------------------------------------------
(* Bounds of the model *)

NumNodes == 3
NumTx == 3

---------------------------------------------------------------------------
(* Addresses: actor.rs Address {index}.  Reactive nodes get the first      *)
(* indices, the driver clients the next ones.                              *)

NodeAddrs == 1 .. NumNodes
ClientBase == NumNodes
ClientAddrs == {ClientBase + 1, ClientBase + 2}

\* message.rs TxPriority: High = 0, Low = 1
High == 0
Low == 1

\* message.rs TxId {priority, timestamp, address}; the last transaction is a
\* High-priority one, so it is the oldest although its timestamp is the largest.
Tx(i) == [priority  |-> IF i = NumTx /\ NumTx > 1 THEN High ELSE Low,
          timestamp |-> i,
          address   |-> ClientBase + 1 + (i % 2)]

Txs == {Tx(i) : i \in 1 .. NumTx}

\* #[derive(PartialOrd, Ord)] on TxId: lexicographic on (priority, timestamp, address)
TxLt(a, b) ==
    \/ a.priority < b.priority
    \/ a.priority = b.priority /\ a.timestamp < b.timestamp
    \/ a.priority = b.priority /\ a.timestamp = b.timestamp /\ a.address < b.address

TxLe(a, b) == a = b \/ TxLt(a, b)

RECURSIVE Ascending(_)
\* BTreeMap<TxId, _> iteration order: the keys from oldest to youngest
Ascending(S) ==
    IF S = {} THEN <<>>
    ELSE LET m == CHOOSE x \in S : \A y \in S : TxLe(x, y)
         IN <<m>> \o Ascending(S \ {m})

RECURSIVE Descending(_)
\* BTreeMap iter().rev(): youngest first
Descending(S) ==
    IF S = {} THEN <<>>
    ELSE LET m == CHOOSE x \in S : \A y \in S : TxLe(y, x)
         IN <<m>> \o Descending(S \ {m})

---------------------------------------------------------------------------
(* BasisStamp: message.rs.  A stamp is a finite map root address ->        *)
(* iteration, here a function whose domain is the set of roots present.    *)

EmptyBasis == [r \in {} |-> 0]

Max(a, b) == IF a >= b THEN a ELSE b

is_empty(b) == DOMAIN b = {}

latest(b, r) == IF r \in DOMAIN b THEN b[r] ELSE 0

add(b, r, i) ==
    [x \in DOMAIN b \cup {r} |->
        IF x = r THEN (IF r \in DOMAIN b THEN Max(b[r], i) ELSE i) ELSE b[x]]

\* merge_from taking the entries of b as they are
merge_from_over(a, b) ==
    [x \in DOMAIN a \cup DOMAIN b |-> IF x \in DOMAIN b THEN b[x] ELSE a[x]]

merge_from(a, b) ==
    [x \in DOMAIN a \cup DOMAIN b |->
        IF x \in DOMAIN a /\ x \in DOMAIN b THEN Max(a[x], b[x])
        ELSE IF x \in DOMAIN a THEN a[x] ELSE b[x]]

\* ancestors is a map Address -> Ancestor; only its keys are consulted
prec_eq_wrt_ancestors(a, b, ancestors) ==
    \A r \in DOMAIN ancestors : latest(a, r) <= latest(b, r)

---------------------------------------------------------------------------
(* Options and sums are records with a tag.                                *)

None == [tag |-> "None"]

Integer(n) == [tag |-> "Integer", n |-> n]

\* held_locks.rs Read, as Option<Read>
ReadNone == [tag |-> "None"]
ReadPending(b) == [tag |-> "Pending", basis |-> b]
ReadComplete == [tag |-> "Complete"]

\* held_locks.rs SharedLockState::default()
SharedLockStateDefault ==
    [preempting |-> FALSE,
     subscription_updates |-> [a \in {} |-> TRUE],
     read |-> ReadNone]

\* held_locks.rs ExclusiveLockState
Unchanged == [tag |-> "Unchanged"]
WriteState(v) == [tag |-> "Write", value |-> v]
UpdateState(c) == [tag |-> "Update", configuration |-> c]
RetireState == [tag |-> "Retire"]

\* held_locks.rs HeldLocks
HeldNone == [tag |-> "None"]
HeldShared(m) == [tag |-> "Shared", shared |-> m]
HeldExclusive(t, s, e) == [tag |-> "Exclusive", txid |-> t, shared |-> s, exclusive |-> e]

\* the transactions that hold a lock according to the node's held field
Holders(held) ==
    CASE held.tag = "None" -> {}
      [] held.tag = "Shared" -> DOMAIN held.shared
      [] held.tag = "Exclusive" -> {held.txid}

---------------------------------------------------------------------------
(* Messages: message.rs Message                                            *)

Lock(t, k) == [type |-> "Lock", txid |-> t, kind |-> k]
LockGranted(t, a, nk, v) ==
    [type |-> "LockGranted", txid |-> t, address |-> a, node_kind |-> nk, version |-> v]
Preempt(t) == [type |-> "Preempt", txid |-> t]
Abort(t) == [type |-> "Abort", txid |-> t]
Release(t, b) == [type |-> "Release", txid |-> t, basis |-> b]
Unreachable(m) == [type |-> "Unreachable", message |-> m]

\* a message handed to Context::send
Send(target, message) == [target |-> target, message |-> message]

Read(t, b) == [type |-> "Read", txid |-> t, basis |-> b]
ReadResult(t, a, v) == [type |-> "ReadResult", txid |-> t, address |-> a, value |-> v]
UpdateSubscriptions(t, c) == [type |-> "UpdateSubscriptions", txid |-> t, changes |-> c]
Write(t, v) == [type |-> "Write", txid |-> t, value |-> v]
Reconfigure(t, c) == [type |-> "Reconfigure", txid |-> t, configuration |-> c]
Retire(t) == [type |-> "Retire", txid |-> t]
Propagate(s, v) == [type |-> "Propagate", sender |-> s, value |-> v]

\* message.rs NodeKind
KindVariable(i) == [tag |-> "Variable", iteration |-> i]
KindDefinition(anc) == [tag |-> "Definition", ancestors |-> anc]

\* message.rs StampedValue {value, basis}
StampedValue(v, b) == [tag |-> "Some", value |-> v, basis |-> b]

\* message.rs ReactiveConfiguration
ConfigVariable(sv) == [tag |-> "Variable", value |-> sv]
ConfigDefinition(e, ins) == [tag |-> "Definition", expr |-> e, inputs |-> ins]

Range(s) == {s[i] : i \in DOMAIN s}

---------------------------------------------------------------------------
(* Expressions: expr.rs Expr, expr/eval.rs Expr::eval                      *)

ExprRead(a) == [tag |-> "Read", addr |-> a]
ExprValue(v) == [tag |-> "Value", value |-> v]
ExprTuple(items) == [tag |-> "Tuple", items |-> items]
ValueTuple(items) == [tag |-> "Tuple", items |-> items]

\* reactive/definition.rs EvalContext::read: the baseline value of an input
ctx_read(inputs, a) ==
    IF a \in DOMAIN inputs /\ inputs[a].value.tag = "Some"
    THEN [tag |-> "Some", value |-> inputs[a].value.value]
    ELSE None

\* binds a computed value to a name: With(e, LAMBDA v : body)
With(v, F(_)) == F(v)

RECURSIVE eval(_, _)
\* expr/eval.rs Expr::eval against a definition's inputs
eval(e, inputs) ==
    CASE e.tag = "Value" -> e
      [] e.tag = "Read" ->
            With(ctx_read(inputs, e.addr), LAMBDA r :
                IF r.tag = "Some" THEN ExprValue(r.value) ELSE e)
      [] e.tag = "Tuple" ->
            With([i \in DOMAIN e.items |-> eval(e.items[i], inputs)], LAMBDA items :
                IF \A i \in DOMAIN items : items[i].tag = "Value"
                THEN ExprValue(ValueTuple([i \in DOMAIN items |-> items[i].value]))
                ELSE ExprTuple(items))

RECURSIVE visit_reads(_)
\* the addresses an expression reads
visit_reads(e) ==
    CASE e.tag = "Value" -> {}
      [] e.tag = "Read" -> {e.addr}
      [] e.tag = "Tuple" -> UNION {visit_reads(e.items[i]) : i \in DOMAIN e.items}

---------------------------------------------------------------------------
(* Definition: reactive/definition.rs                                      *)

\* Input {ancestors, value: None, updates: []} built from InputMetadata
InputNew(cfg) == [ancestors |-> cfg.ancestors, value |-> None, updates |-> <<>>]

\* Definition::new
Definition_new(expr, inputs) ==
    [tag |-> "Some",
     inputs |-> [a \in DOMAIN inputs |-> InputNew(inputs[a])],
     expr |-> expr]

\* Definition::ancestors, collected into a map
ancestors(def) ==
    LET keys == UNION {DOMAIN def.inputs[a].ancestors : a \in DOMAIN def.inputs}
    IN [k \in keys |->
          LET a == CHOOSE a \in DOMAIN def.inputs : k \in DOMAIN def.inputs[a].ancestors
          IN def.inputs[a].ancestors[k]]

RECURSIVE merge_all(_)
\* fold of merge_from over a set of stamps
merge_all(S) ==
    IF S = {} THEN EmptyBasis
    ELSE LET b == CHOOSE b \in S : TRUE IN merge_from(b, merge_all(S \ {b}))

\* Definition::compute
compute(def) ==
    With(eval(def.expr, def.inputs), LAMBDA e :
        IF e.tag # "Value" THEN None
        ELSE StampedValue(e.value,
                merge_all({def.inputs[a].value.basis : a \in DOMAIN def.inputs})))

\* Definition::reconfigure: [def, value]
reconfigure(def, new_expr, new_inputs) ==
    With([a \in DOMAIN def.inputs \cup DOMAIN new_inputs |->
            IF a \in DOMAIN new_inputs THEN InputNew(new_inputs[a])
            ELSE def.inputs[a]], LAMBDA extended :
    With([tag |-> "Some",
          inputs |-> [a \in DOMAIN extended \cap visit_reads(new_expr) |-> extended[a]],
          expr |-> new_expr], LAMBDA d :
        [def |-> d, value |-> compute(d)]))

\* Definition::add_update
add_update(def, sender, value) ==
    [def EXCEPT !.inputs[sender].updates = Append(@, value)]

\* reactive/definition.rs 113-143: the BatchInput of every input for one seed
batch_inputs(def, explored) ==
    [a \in DOMAIN def.inputs |->
        [ancestors |-> def.inputs[a].ancestors,
         basis |-> IF def.inputs[a].value.tag = "Some"
                   THEN def.inputs[a].value.basis ELSE EmptyBasis,
         remaining_updates |-> IF a \in explored THEN def.inputs[a].updates ELSE <<>>,
         update_count |-> IF a \in explored THEN Len(def.inputs[a].updates) ELSE 0]]

RECURSIVE close_input(_, _, _)
\* reactive/definition.rs 158-172: pop updates of one input until the batch
\* basis precedes the input's basis on the input's ancestors
close_input(input, basis, changed) ==
    IF prec_eq_wrt_ancestors(basis, input.basis, input.ancestors)
    THEN [ok |-> TRUE, input |-> input, basis |-> basis, changed |-> changed]
    ELSE IF input.remaining_updates = <<>>
    THEN [ok |-> FALSE, input |-> input, basis |-> basis, changed |-> changed]
    ELSE LET update == Head(input.remaining_updates)
         IN close_input([input EXCEPT !.remaining_updates = Tail(@),
                                      !.basis = update.basis],
                        merge_from(basis, update.basis), TRUE)

RECURSIVE close_pass(_, _, _, _)
\* reactive/definition.rs 157-173: one pass over the inputs, in the map's order
close_pass(inputs, order, basis, changed) ==
    IF order = <<>>
    THEN [ok |-> TRUE, inputs |-> inputs, basis |-> basis, changed |-> changed]
    ELSE With(close_input(inputs[Head(order)], basis, changed), LAMBDA c :
            IF ~c.ok
            THEN [ok |-> FALSE, inputs |-> inputs, basis |-> basis, changed |-> changed]
            ELSE close_pass([inputs EXCEPT ![Head(order)] = c.input],
                            Tail(order), c.basis, c.changed))

RECURSIVE close_batch(_, _, _)
\* reactive/definition.rs 155-175: passes until one changes nothing
close_batch(inputs, order, basis) ==
    With(close_pass(inputs, order, basis, FALSE), LAMBDA p :
        IF p.ok /\ p.changed THEN close_batch(p.inputs, order, p.basis) ELSE p)

\* reactive/definition.rs 178-188: the number of updates popped off each input
found_batch(c) ==
    [tag |-> "Some",
     update_counts |-> [a \in DOMAIN c.inputs |->
                          c.inputs[a].update_count - Len(c.inputs[a].remaining_updates)],
     basis |-> c.basis]

RECURSIVE seeds_loop(_, _, _, _, _)
\* reactive/definition.rs 111-189: the loop over the seeds; seeds and order are
\* the orders in which the two HashMaps yield the inputs
seeds_loop(def, seeds, explored, found, order) ==
    IF seeds = <<>> THEN found
    ELSE With(batch_inputs(def, explored), LAMBDA inputs :
            IF inputs[Head(seeds)].remaining_updates = <<>>
            THEN seeds_loop(def, Tail(seeds), explored \cup {Head(seeds)}, found, order)
            ELSE With(close_batch(
                        [inputs EXCEPT
                            ![Head(seeds)].remaining_updates = Tail(@),
                            ![Head(seeds)].basis =
                                Head(inputs[Head(seeds)].remaining_updates).basis],
                        order,
                        Head(inputs[Head(seeds)].remaining_updates).basis), LAMBDA c :
                    IF ~c.ok
                    THEN seeds_loop(def, Tail(seeds), explored \cup {Head(seeds)},
                                    found, order)
                    ELSE seeds_loop(def, Tail(seeds), explored, found_batch(c), order)))

\* reactive/definition.rs 195-211: the inputs after the batch's updates are drained
drain_updates(inputs, n) ==
    [a \in DOMAIN inputs |->
        IF n[a] > 0
        THEN [inputs[a] EXCEPT !.value = inputs[a].updates[n[a]],
                               !.updates = SubSeq(@, n[a] + 1, Len(@))]
        ELSE inputs[a]]

\* reactive/definition.rs 203-207: the batch basis merged with the baselines of
\* the inputs the batch does not update
batch_basis(inputs, n, basis) ==
    merge_from(basis,
        merge_all({inputs[a].value.basis :
                     a \in {x \in DOMAIN inputs : n[x] = 0 /\ inputs[x].value.tag = "Some"}}))

\* reactive/definition.rs 191-223: the batch found is applied and the expression
\* evaluated
apply_batch(def, found) ==
    With([def EXCEPT !.inputs = drain_updates(@, found.update_counts)], LAMBDA d :
        IF \E a \in DOMAIN def.inputs :
                found.update_counts[a] = 0 /\ def.inputs[a].value.tag = "None"
        THEN [def |-> d, value |-> None, panic |-> FALSE]
        ELSE With(eval(d.expr, d.inputs), LAMBDA e :
                IF e.tag # "Value" THEN [def |-> d, value |-> None, panic |-> TRUE]
                ELSE [def |-> d,
                      value |-> StampedValue(e.value,
                                    batch_basis(def.inputs, found.update_counts,
                                                found.basis)),
                      panic |-> FALSE]))

\* Definition::find_and_apply_batch: the definition after it, the value returned
\* (None or a StampedValue) and whether it panicked.  The debug_assert! of line 199
\* is compiled out of a release build and is not modelled.
find_and_apply_batch(def, seeds, order) ==
    With(seeds_loop(def, seeds, {}, None, order), LAMBDA found :
        IF found.tag = "None"
        THEN [def |-> def, value |-> None, panic |-> FALSE]
        ELSE apply_batch(def, found))

---------------------------------------------------------------------------
(* The reactive node: reactive.rs                                          *)

\* Reactive::new
ReactiveNew(config) ==
    [queued |-> [t \in {} |-> "Shared"],
     held |-> HeldNone,
     definition |-> IF config.tag = "Definition"
                    THEN Definition_new(config.expr, config.inputs) ELSE None,
     value |-> IF config.tag = "Variable" THEN config.value ELSE None,
     reads |-> EmptyBasis,
     subscribers |-> {},
     version |-> 0,
     iteration |-> 0]

\* the ancestors map a node reports: its definition's, none for a variable
my_ancestors(st) ==
    IF st.definition.tag = "Some" THEN ancestors(st.definition) ELSE [k \in {} |-> TRUE]

\* the node_kind field of LockGranted, reactive.rs 205-216
node_kind(st) ==
    IF st.definition.tag = "Some"
    THEN KindDefinition(ancestors(st.definition))
    ELSE KindVariable(st.iteration)

\* preempt without the preempting flag: a Preempt at every call
preempt_unflagged(state, txid) ==
    [state |-> [state EXCEPT !.preempting = TRUE],
     sent |-> <<Send(txid.address, Preempt(txid))>>]

\* held_locks.rs SharedLockState::preempt: the new state and the message sent
preempt(state, txid) ==
    IF ~state.preempting
    THEN [state |-> [state EXCEPT !.preempting = TRUE],
          sent |-> <<Send(txid.address, Preempt(txid))>>]
    ELSE [state |-> state, sent |-> <<>>]

RECURSIVE preempt_younger(_, _, _, _)
\* reactive.rs 171-177: walk the shared holders from the youngest down, stop at
\* the first one older than the queued exclusive request
preempt_younger(shared, order, txid, sent) ==
    IF order = <<>> \/ TxLt(Head(order), txid)
    THEN [shared |-> shared, sent |-> sent]
    ELSE With(preempt(shared[Head(order)], Head(order)), LAMBDA p :
            preempt_younger([shared EXCEPT ![Head(order)] = p.state],
                            Tail(order), txid, sent \o p.sent))

\* One iteration of the loop of grant_locks.  acc = [held, granted, sent];
\* go says whether the loop goes on to the next queued request.

\* reactive.rs 147-161
grant_unheld(acc, txid, kind) ==
    [acc |-> [acc EXCEPT
                !.held = IF kind = "Shared"
                         THEN HeldShared((txid :> SharedLockStateDefault))
                         ELSE HeldExclusive(txid, SharedLockStateDefault, Unchanged),
                !.granted = Append(@, txid)],
     go |-> TRUE]

\* grant_shared granting an Exclusive request next to the Shared holders
grant_shared_any(acc, txid, kind) ==
    [acc |-> [acc EXCEPT
                !.held.shared = (txid :> SharedLockStateDefault) @@ @,
                !.granted = Append(@, txid)],
     go |-> TRUE]

\* grant_shared whose scan goes on behind an Exclusive request
grant_shared_on(acc, txid, kind) ==
    IF kind = "Shared"
    THEN [acc |-> [acc EXCEPT
                     !.held.shared = (txid :> SharedLockStateDefault) @@ @,
                     !.granted = Append(@, txid)],
          go |-> TRUE]
    ELSE [acc |-> acc, go |-> TRUE]

\* reactive.rs 164-181
grant_shared(acc, txid, kind) ==
    IF kind = "Shared"
    THEN [acc |-> [acc EXCEPT
                     !.held.shared = (txid :> SharedLockStateDefault) @@ @,
                     !.granted = Append(@, txid)],
          go |-> TRUE]
    ELSE With(preempt_younger(acc.held.shared,
                              Descending(DOMAIN acc.held.shared), txid, <<>>), LAMBDA p :
            [acc |-> [acc EXCEPT !.held.shared = p.shared, !.sent = @ \o p.sent],
             go |-> FALSE])

\* reactive.rs 184-191
grant_exclusive(acc, txid, kind) ==
    IF TxLt(txid, acc.held.txid)
    THEN With(preempt(acc.held.shared, txid), LAMBDA p :
            [acc |-> [acc EXCEPT !.held.shared = p.state, !.sent = @ \o p.sent],
             go |-> FALSE])
    ELSE [acc |-> acc, go |-> FALSE]

\* reactive.rs 146-193: the match on held for one queued request
grant_step(acc, txid, kind) ==
    CASE acc.held.tag = "None" -> grant_unheld(acc, txid, kind)
      [] acc.held.tag = "Shared" -> grant_shared(acc, txid, kind)
      [] acc.held.tag = "Exclusive" -> grant_exclusive(acc, txid, kind)

RECURSIVE grant_scan_past(_, _, _)
\* grant_scan going on to the younger requests past one it cannot grant
grant_scan_past(acc, queued, todo) ==
    IF todo = <<>> THEN acc
    ELSE With(grant_step(acc, Head(todo), queued[Head(todo)]), LAMBDA r :
            grant_scan_past(r.acc, queued, Tail(todo)))

RECURSIVE grant_scan(_, _, _)
\* reactive.rs 144-196: the loop over queued, oldest first
grant_scan(acc, queued, todo) ==
    IF todo = <<>> THEN acc
    ELSE With(grant_step(acc, Head(todo), queued[Head(todo)]), LAMBDA r :
            IF r.go THEN grant_scan(r.acc, queued, Tail(todo)) ELSE r.acc)

\* reactive.rs 198-220: the granted requests leave queued and are answered
send_grants(st, me, r) ==
    [st |-> [st EXCEPT !.held = r.held,
                       !.queued = [t \in DOMAIN st.queued \ Range(r.granted) |->
                                      st.queued[t]]],
     sent |-> r.sent \o
              [i \in 1 .. Len(r.granted) |->
                  Send(r.granted[i].address,
                       LockGranted(r.granted[i], me, node_kind(st), st.version))]]

\* Reactive::grant_locks: the node after it, and the messages sent
grant_locks(st, me) ==
    send_grants(st, me,
        grant_scan([held |-> st.held, granted |-> <<>>, sent |-> <<>>],
                   st.queued, Ascending(DOMAIN st.queued)))

\* reactive.rs 245-260: a pending read whose basis the new value covers is answered
wake_read(state, txid, value, anc, me) ==
    IF state.read.tag = "Pending"
       /\ prec_eq_wrt_ancestors(state.read.basis, value.basis, anc)
    THEN [state |-> [state EXCEPT !.read = ReadComplete],
          sent |-> <<Send(txid.address, ReadResult(txid, me, value))>>]
    ELSE [state |-> state, sent |-> <<>>]

RECURSIVE visit_wake(_, _, _, _, _, _)
\* held_locks.rs visit_shared over the shared holders, oldest first
visit_wake(shared, order, value, anc, me, sent) ==
    IF order = <<>> THEN [shared |-> shared, sent |-> sent]
    ELSE With(wake_read(shared[Head(order)], Head(order), value, anc, me), LAMBDA w :
            visit_wake([shared EXCEPT ![Head(order)] = w.state],
                       Tail(order), value, anc, me, sent \o w.sent))

\* reactive.rs 245-262: the pending reads of the lock holders against value v
wake_holders(held, v, anc, me) ==
    CASE held.tag = "None" -> [held |-> held, sent |-> <<>>]
      [] held.tag = "Shared" ->
            With(visit_wake(held.shared, Ascending(DOMAIN held.shared),
                            v, anc, me, <<>>), LAMBDA w :
                [held |-> HeldShared(w.shared), sent |-> w.sent])
      [] held.tag = "Exclusive" ->
            With(wake_read(held.shared, held.txid, v, anc, me), LAMBDA w :
                [held |-> [held EXCEPT !.shared = w.state], sent |-> w.sent])

\* store_value without the advance of the iteration
store_value_stale(st, me, v, order) ==
    With(wake_holders(st.held, v, my_ancestors(st), me), LAMBDA woken :
        [st |-> [st EXCEPT !.reads = EmptyBasis,
                           !.held = woken.held,
                           !.value = v],
         sent |-> [i \in 1 .. Len(order) |-> Send(order[i], Propagate(me, v))]
                    \o woken.sent])

\* store_value with the Propagate sent to the first subscriber only
store_value_first(st, me, v, order) ==
    With(wake_holders(st.held, v, my_ancestors(st), me), LAMBDA woken :
        [st |-> [st EXCEPT !.iteration = Max(@, latest(v.basis, me)),
                           !.reads = EmptyBasis,
                           !.held = woken.held,
                           !.value = v],
         sent |-> [i \in 1 .. (IF Len(order) > 0 THEN 1 ELSE 0) |->
                      Send(order[i], Propagate(me, v))]
                    \o woken.sent])

RECURSIVE subscribers_after(_)
\* the addresses of S, the smallest first
subscribers_after(S) ==
    IF S = {} THEN <<>>
    ELSE With(CHOOSE x \in S : \A y \in S : x <= y, LAMBDA a :
            <<a>> \o subscribers_after(S \ {a}))

\* reactive.rs 229: the subscribers the node has when update_value runs, in the
\* order the HashSet yields them; order lists those it had when the handler
\* began
subscribers_in(st, order) ==
    SelectSeq(order, LAMBDA a : a \in st.subscribers)
        \o subscribers_after(st.subscribers \ Range(order))

\* reactive.rs 233-263: the stamped value v is stored and propagated
store_value(st, me, v, order) ==
    With(wake_holders(st.held, v, my_ancestors(st), me), LAMBDA woken :
        [st |-> [st EXCEPT !.iteration = Max(@, latest(v.basis, me)),
                           !.reads = EmptyBasis,
                           !.held = woken.held,
                           !.value = v],
         sent |-> With(subscribers_in(st, order), LAMBDA to :
                     [i \in 1 .. Len(to) |-> Send(to[i], Propagate(me, v))])
                    \o woken.sent])

\* update_value without the merge of reads into the basis of the new value
update_value_unmerged(st, me, value, order) ==
    store_value(st, me, value, order)

\* Reactive::update_value; order lists the subscribers as the HashSet yields them
update_value(st, me, value, order) ==
    store_value(st, me, [value EXCEPT !.basis = merge_from(value.basis, st.reads)], order)

\* reactive.rs 130-136
apply_subscription_updates(subscribers, updates) ==
    (subscribers \cup {a \in DOMAIN updates : updates[a]})
        \ {a \in DOMAIN updates : ~updates[a]}

\* The result of a handler or of apply_changes: the node, the messages sent,
\* whether the node retired, whether it panicked.
Handled(st, sent) == [st |-> st, sent |-> sent, retired |-> FALSE, panic |-> FALSE]
Panic(st) == [st |-> st, sent |-> <<>>, retired |-> FALSE, panic |-> TRUE]
Done(u) == [st |-> u.st, sent |-> u.sent, retired |-> FALSE, panic |-> FALSE]

\* reactive.rs 103-118: the definition and the new value of a configuration update
new_configuration(st, cfg) ==
    CASE cfg.tag = "Variable" -> [def |-> None, value |-> cfg.value]
      [] cfg.tag = "Definition" /\ st.definition.tag = "None" ->
            [def |-> Definition_new(cfg.expr, cfg.inputs), value |-> None]
      [] OTHER -> reconfigure(st.definition, cfg.expr, cfg.inputs)

\* configured without the increment of the version
configured_same_version(st, me, n, order) ==
    With(IF n.value.tag = "Some"
         THEN update_value([st EXCEPT !.definition = n.def], me, n.value, order)
         ELSE [st |-> [st EXCEPT !.definition = n.def], sent |-> <<>>], LAMBDA u :
        Handled(u.st, u.sent))

\* reactive.rs 120-124
configured(st, me, n, order) ==
    With(IF n.value.tag = "Some"
         THEN update_value([st EXCEPT !.definition = n.def], me, n.value, order)
         ELSE [st |-> [st EXCEPT !.definition = n.def], sent |-> <<>>], LAMBDA u :
        Handled([u.st EXCEPT !.version = @ + 1], u.sent))

\* reactive.rs 87-128: the match on the exclusive state
apply_exclusive(st, me, basis, exclusive_state, order) ==
    CASE exclusive_state.tag = "Unchanged" -> Handled(st, <<>>)
      [] exclusive_state.tag = "Retire" ->
            [st |-> st, sent |-> <<>>, retired |-> TRUE, panic |-> FALSE]
      [] exclusive_state.tag = "Write" ->
            IF st.definition.tag = "Some" THEN Panic(st)
            ELSE Done(update_value(st, me,
                        StampedValue(exclusive_state.value, basis), order))
      [] exclusive_state.tag = "Update" ->
            configured(st, me,
                new_configuration(st, exclusive_state.configuration), order)

\* apply_changes applying the subscription changes before the new value
apply_changes_subscribed(st, me, basis, shared_state, exclusive_state, order) ==
    apply_exclusive(
        [(IF shared_state.read.tag = "Complete"
          THEN [st EXCEPT !.reads = merge_from(@, basis)] ELSE st)
            EXCEPT !.subscribers =
                apply_subscription_updates(@, shared_state.subscription_updates)],
        me, basis, exclusive_state, order)

\* Reactive::apply_changes
apply_changes(st, me, basis, shared_state, exclusive_state, order) ==
    With(apply_exclusive(
            IF shared_state.read.tag = "Complete"
            THEN [st EXCEPT !.reads = merge_from(@, basis)] ELSE st,
            me, basis, exclusive_state, order), LAMBDA r :
        IF r.panic THEN r
        ELSE [r EXCEPT !.st.subscribers =
                 apply_subscription_updates(@, shared_state.subscription_updates)])

\* held_locks.rs HeldLocks::shared / shared_mut
shared(held, txid) ==
    CASE held.tag = "Shared" /\ txid \in DOMAIN held.shared ->
            [tag |-> "Some", state |-> held.shared[txid]]
      [] held.tag = "Exclusive" /\ held.txid = txid ->
            [tag |-> "Some", state |-> held.shared]
      [] OTHER -> None

\* the held locks with txid's SharedLockState replaced (a write through shared_mut)
set_shared(held, txid, state) ==
    IF held.tag = "Shared" THEN [held EXCEPT !.shared[txid] = state]
    ELSE [held EXCEPT !.shared = state]

\* held_locks.rs HeldLocks::exclusive / exclusive_mut
exclusive(held, txid) ==
    IF held.tag = "Exclusive" /\ held.txid = txid
    THEN [tag |-> "Some", state |-> held.exclusive]
    ELSE None

\* the held locks without txid's Shared lock, reactive.rs 282-285 and 310-313
without_shared(held, txid) ==
    IF DOMAIN held.shared \ {txid} # {}
    THEN HeldShared([t \in DOMAIN held.shared \ {txid} |-> held.shared[t]])
    ELSE HeldNone

\* reactive.rs 269-277
handle_lock(st, me, msg) ==
    IF msg.txid \in DOMAIN st.queued THEN Panic(st)
    ELSE Done(grant_locks([st EXCEPT !.queued = (msg.txid :> msg.kind) @@ @], me))

\* the Abort handler without its call of grant_locks
handle_abort_only(st, me, msg) ==
    CASE st.held.tag = "None" -> Panic(st)
      [] st.held.tag = "Shared" ->
            IF msg.txid \notin DOMAIN st.held.shared
            THEN Panic([st EXCEPT !.held = without_shared(@, msg.txid)])
            ELSE Handled([st EXCEPT !.held = without_shared(@, msg.txid)], <<>>)
      [] st.held.tag = "Exclusive" ->
            IF st.held.txid # msg.txid THEN Panic(st)
            ELSE Handled([st EXCEPT !.held = HeldNone], <<>>)

\* the Abort handler leaving a Shared holder and its read in place
handle_abort_kept(st, me, msg) ==
    CASE st.held.tag = "None" -> Panic(st)
      [] st.held.tag = "Shared" ->
            IF msg.txid \notin DOMAIN st.held.shared
            THEN Panic([st EXCEPT !.held = without_shared(@, msg.txid)])
            ELSE Done(grant_locks(st, me))
      [] st.held.tag = "Exclusive" ->
            IF st.held.txid # msg.txid THEN Panic(st)
            ELSE Done(grant_locks([st EXCEPT !.held = HeldNone], me))

\* the Abort handler applying the subscription changes the holder staged
handle_abort_applied(st, me, msg) ==
    CASE st.held.tag = "None" -> Panic(st)
      [] st.held.tag = "Shared" ->
            IF msg.txid \notin DOMAIN st.held.shared
            THEN Panic([st EXCEPT !.held = without_shared(@, msg.txid)])
            ELSE Done(grant_locks(
                    [st EXCEPT !.held = without_shared(@, msg.txid),
                               !.subscribers = apply_subscription_updates(@,
                                    st.held.shared[msg.txid].subscription_updates)], me))
      [] st.held.tag = "Exclusive" ->
            IF st.held.txid # msg.txid THEN Panic(st)
            ELSE Done(grant_locks(
                    [st EXCEPT !.held = HeldNone,
                               !.subscribers = apply_subscription_updates(@,
                                    st.held.shared.subscription_updates)], me))

\* reactive.rs 278-305
handle_abort(st, me, msg) ==
    CASE st.held.tag = "None" -> Panic(st)
      [] st.held.tag = "Shared" ->
            IF msg.txid \notin DOMAIN st.held.shared
            THEN Panic([st EXCEPT !.held = without_shared(@, msg.txid)])
            ELSE Done(grant_locks([st EXCEPT !.held = without_shared(@, msg.txid)], me))
      [] st.held.tag = "Exclusive" ->
            IF st.held.txid # msg.txid THEN Panic(st)
            ELSE Done(grant_locks([st EXCEPT !.held = HeldNone], me))

\* release_finish running grant_locks on a node that retired
release_finish_granting(a, me) ==
    IF a.panic THEN a
    ELSE With(grant_locks(a.st, me), LAMBDA g :
            [a EXCEPT !.st = g.st, !.sent = @ \o g.sent])

\* reactive.rs 342-348: grant_locks follows apply_changes unless the node retired
release_finish(a, me) ==
    IF a.panic \/ a.retired THEN a
    ELSE With(grant_locks(a.st, me), LAMBDA g :
            [a EXCEPT !.st = g.st, !.sent = @ \o g.sent])

\* reactive.rs 306-349
handle_release(st, me, msg, order) ==
    CASE st.held.tag = "None" -> Panic(st)
      [] st.held.tag = "Shared" ->
            IF msg.txid \notin DOMAIN st.held.shared
            THEN Panic([st EXCEPT !.held = without_shared(@, msg.txid)])
            ELSE release_finish(
                    apply_changes([st EXCEPT !.held = without_shared(@, msg.txid)],
                                  me, msg.basis, st.held.shared[msg.txid],
                                  Unchanged, order), me)
      [] st.held.tag = "Exclusive" ->
            IF st.held.txid # msg.txid THEN Panic(st)
            ELSE release_finish(
                    apply_changes([st EXCEPT !.held = HeldNone], me, msg.basis,
                                  st.held.shared, st.held.exclusive, order), me)

\* the Read handler answering whatever basis the request carries
answer_read_ungated(st, me, msg, state) ==
    IF st.value.tag = "None"
    THEN Handled([st EXCEPT !.held = set_shared(@, msg.txid,
                     [state EXCEPT !.read = ReadPending(msg.basis)])], <<>>)
    ELSE Handled([st EXCEPT !.held = set_shared(@, msg.txid,
                     [state EXCEPT !.read = ReadComplete])],
                 <<Send(msg.txid.address, ReadResult(msg.txid, me, st.value))>>)

\* reactive.rs 356-368: the read is answered at once or left pending
answer_read(st, me, msg, state) ==
    IF ~is_empty(msg.basis) \/ st.value.tag = "None"
    THEN Handled([st EXCEPT !.held = set_shared(@, msg.txid,
                     [state EXCEPT !.read = ReadPending(msg.basis)])], <<>>)
    ELSE Handled([st EXCEPT !.held = set_shared(@, msg.txid,
                     [state EXCEPT !.read = ReadComplete])],
                 <<Send(msg.txid.address, ReadResult(msg.txid, me, st.value))>>)

\* reactive.rs 350-369
handle_read(st, me, msg) ==
    IF shared(st.held, msg.txid).tag = "None" THEN Panic(st)
    ELSE answer_read(st, me, msg, shared(st.held, msg.txid).state)

\* reactive.rs 383-389
handle_update_subscriptions(st, me, msg) ==
    IF shared(st.held, msg.txid).tag = "None" THEN Panic(st)
    ELSE Handled([st EXCEPT !.held = set_shared(@, msg.txid,
                     [shared(st.held, msg.txid).state EXCEPT
                         !.subscription_updates = msg.changes @@ @])],
                 <<>>)

\* reactive.rs 390-408
handle_reconfigure(st, me, msg) ==
    IF exclusive(st.held, msg.txid).tag = "None" THEN Panic(st)
    ELSE IF st.held.exclusive.tag = "Retire" THEN Panic(st)
    ELSE Handled([st EXCEPT !.held.exclusive = UpdateState(msg.configuration)], <<>>)

\* handle_write storing the value at once
handle_write_through(st, me, msg) ==
    IF exclusive(st.held, msg.txid).tag = "None" \/ st.definition.tag = "Some"
    THEN Panic(st)
    ELSE Handled([st EXCEPT !.value = StampedValue(msg.value, EmptyBasis)], <<>>)

\* reactive.rs 409-433
handle_write(st, me, msg) ==
    IF exclusive(st.held, msg.txid).tag = "None" \/ st.definition.tag = "Some"
    THEN Panic(st)
    ELSE IF st.held.exclusive.tag \in {"Unchanged", "Write"}
    THEN Handled([st EXCEPT !.held.exclusive = WriteState(msg.value)], <<>>)
    ELSE IF st.held.exclusive.tag = "Update"
            /\ st.held.exclusive.configuration.tag = "Variable"
    THEN Panic([st EXCEPT !.held.exclusive.configuration.value.value = msg.value])
    ELSE Panic(st)

\* reactive.rs 434-440
handle_retire(st, me, msg) ==
    IF exclusive(st.held, msg.txid).tag = "None" THEN Panic(st)
    ELSE Handled([st EXCEPT !.held.exclusive = RetireState], <<>>)

\* reactive.rs 448-450: the batch found, if any, becomes the node's value
propagated(st, me, b, order) ==
    IF b.panic THEN Panic([st EXCEPT !.definition = b.def])
    ELSE IF b.value.tag = "Some"
    THEN Done(update_value([st EXCEPT !.definition = b.def], me, b.value, order))
    ELSE Handled([st EXCEPT !.definition = b.def], <<>>)

\* reactive.rs 441-451; seeds and scan are the iteration orders of the inputs
handle_propagate(st, me, msg, order, seeds, scan) ==
    IF st.definition.tag = "None" THEN Panic(st)
    ELSE IF msg.sender \notin DOMAIN st.definition.inputs THEN Panic(st)
    ELSE propagated(st, me,
            find_and_apply_batch(add_update(st.definition, msg.sender, msg.value),
                                 seeds, scan),
            order)

\* Reactive::handle
ReactiveHandle(st, me, msg, order, seeds, scan) ==
    CASE msg.type = "Lock" -> handle_lock(st, me, msg)
      [] msg.type = "Abort" -> handle_abort(st, me, msg)
      [] msg.type = "Release" -> handle_release(st, me, msg, order)
      [] msg.type = "Read" -> handle_read(st, me, msg)
      [] msg.type = "UpdateSubscriptions" -> handle_update_subscriptions(st, me, msg)
      [] msg.type = "Reconfigure" -> handle_reconfigure(st, me, msg)
      [] msg.type = "Write" -> handle_write(st, me, msg)
      [] msg.type = "Retire" -> handle_retire(st, me, msg)
      [] msg.type = "Propagate" -> handle_propagate(st, me, msg, order, seeds, scan)
      [] OTHER -> Panic(st)

---------------------------------------------------------------------------
(* The router: actor.rs System.  One action is one iteration of the loop   *)
(* of System::run.                                                         *)

\* Context::send placing the messages at the front of the queue
EnqueueFront(q, me, sent) ==
    [i \in 1 .. Len(sent) |->
        [sender |-> me, target |-> sent[i].target, message |-> sent[i].message]] \o q

\* Context::send of every message of sent, in order, by the actor me
Enqueue(q, me, sent) ==
    q \o [i \in 1 .. Len(sent) |->
            [sender |-> me, target |-> sent[i].target, message |-> sent[i].message]]

\* the orders in which a HashSet or HashMap may yield the elements of S
Orders(S) ==
    {o \in [1 .. Cardinality(S) -> S] : \A i, j \in DOMAIN o : o[i] = o[j] => i = j}

\* the inputs of a node's definition
InputsOf(st) == IF st.definition.tag = "Some" THEN DOMAIN st.definition.inputs ELSE {}

\* the LockGranted messages among sent
Grants(sent) == {sent[i].message : i \in {j \in DOMAIN sent : sent[j].message.type = "LockGranted"}}

\* how many Preempt{t} are among sent
PreemptCount(sent, t) ==
    Cardinality({i \in DOMAIN sent : sent[i].message = Preempt(t)})

\* the router returning an undeliverable message at the back of the queue
RunUnreachableBack ==
    /\ ~panicked
    /\ queue # <<>>
    /\ Head(queue).target \notin actors
    /\ queue' = Tail(queue) \o (IF Head(queue).message.type # "Unreachable"
                                THEN <<[sender |-> Head(queue).target,
                                        target |-> Head(queue).sender,
                                        message |-> Unreachable(Head(queue).message)]>>
                                ELSE <<>>)
    /\ UNCHANGED <<nodes, actors, panicked, cl, lastH, holding, preempts>>

\* the router answering every undeliverable message, an Unreachable included
RunUnreachableAlways ==
    /\ ~panicked
    /\ queue # <<>>
    /\ Head(queue).target \notin actors
    /\ queue' = <<[sender |-> Head(queue).target,
                   target |-> Head(queue).sender,
                   message |-> Unreachable(Head(queue).message)]>> \o Tail(queue)
    /\ UNCHANGED <<nodes, actors, panicked, cl, lastH, holding, preempts>>

\* actor.rs 72-88: the target is not registered; the message bounces to its
\* sender at the front of the queue unless it is itself an Unreachable
RunUnreachable ==
    /\ ~panicked
    /\ queue # <<>>
    /\ Head(queue).target \notin actors
    /\ queue' = (IF Head(queue).message.type # "Unreachable"
                 THEN <<[sender |-> Head(queue).target,
                         target |-> Head(queue).sender,
                         message |-> Unreachable(Head(queue).message)]>>
                 ELSE <<>>) \o Tail(queue)
    /\ UNCHANGED <<nodes, actors, panicked, cl, lastH, holding, preempts>>

\* actor.rs 90-104 with a reactive node as the target: Reactive::handle runs to
\* completion; the history variables record what it did
RunNode ==
    /\ ~panicked
    /\ queue # <<>>
    /\ Head(queue).target \in actors \cap NodeAddrs
    /\ LET n == Head(queue).target
           msg == Head(queue).message
           st == nodes[n]
       IN \E order \in Orders(st.subscribers), seeds \in Orders(InputsOf(st)),
             scan \in Orders(InputsOf(st)) :
          \E r \in {ReactiveHandle(st, n, msg, order, seeds, scan)} :
            LET asked == IF msg.type = "Lock" /\ ~r.panic
                         THEN (msg.txid :> msg.kind) @@ st.queued ELSE st.queued
                granted == {g.txid : g \in Grants(r.sent)}
                gone == IF msg.type \in {"Abort", "Release"} /\ ~r.panic
                        THEN {msg.txid} ELSE {}
                kept == {h \in holding[n] : h.txid \notin gone}
            IN /\ nodes' = [nodes EXCEPT ![n] = r.st]
               /\ actors' = IF r.retired THEN actors \ {n} ELSE actors
               /\ panicked' = r.panic
               /\ queue' = Enqueue(Tail(queue), n, r.sent)
               /\ lastH' = [tag |-> "Some", node |-> n, msg |-> msg, before |-> st,
                            after |-> r.st, sent |-> r.sent,
                            retired |-> r.retired, panic |-> r.panic]
               /\ holding' = [holding EXCEPT ![n] =
                                kept \cup {[txid |-> t, kind |-> asked[t]] : t \in granted}]
               /\ preempts' = [preempts EXCEPT ![n] =
                                [t \in Txs |->
                                    IF t \in granted THEN PreemptCount(r.sent, t)
                                    ELSE IF t \in {h.txid : h \in kept}
                                    THEN @[t] + PreemptCount(r.sent, t)
                                    ELSE 0]]
               /\ UNCHANGED cl

---------------------------------------------------------------------------
(* The lock protocol driven by clients that stand for transactions: each   *)
(* transaction may lock each node once, Shared or Exclusive, and once it   *)
(* has the grant it may retire the node, abort or release.                 *)

Kinds == {"Shared", "Exclusive"}

\* the node the driver clients contend for
Contended == {1}

Idle == [phase |-> "idle", kind |-> "Shared"]

\* manager/transaction.rs 222-255 lock_inner: Lock is sent once per node
CLock(t, n, kind) ==
    /\ ~panicked
    /\ cl[t][n].phase = "idle"
    /\ cl' = [cl EXCEPT ![t][n] = [phase |-> "requested", kind |-> kind]]
    /\ queue' = Enqueue(queue, t.address, <<Send(n, Lock(t, kind))>>)
    /\ UNCHANGED <<nodes, actors, panicked, lastH, holding, preempts>>

\* the holder of a granted lock gives it up with Abort
CAbort(t, n) ==
    /\ ~panicked
    /\ cl[t][n].phase \in {"held", "retiring"}
    /\ cl' = [cl EXCEPT ![t][n].phase = "done"]
    /\ queue' = Enqueue(queue, t.address, <<Send(n, Abort(t))>>)
    /\ UNCHANGED <<nodes, actors, panicked, lastH, holding, preempts>>

\* the holder of an Exclusive lock asks the node to retire at release
CRetire(t, n) ==
    /\ ~panicked
    /\ cl[t][n] = [phase |-> "held", kind |-> "Exclusive"]
    /\ cl' = [cl EXCEPT ![t][n].phase = "retiring"]
    /\ queue' = Enqueue(queue, t.address, <<Send(n, Retire(t))>>)
    /\ UNCHANGED <<nodes, actors, panicked, lastH, holding, preempts>>

\* manager/transaction.rs 131-139: Release of a held lock; this driver reads
\* and writes nothing, so the commit basis is empty
CRelease(t, n) ==
    /\ ~panicked
    /\ cl[t][n].phase \in {"held", "retiring"}
    /\ cl' = [cl EXCEPT ![t][n].phase = "done"]
    /\ queue' = Enqueue(queue, t.address, <<Send(n, Release(t, EmptyBasis))>>)
    /\ UNCHANGED <<nodes, actors, panicked, lastH, holding, preempts>>

\* actor.rs 90-104 with a driver client as the target: a grant is noted, a
\* bounced message ends the transaction's business with the retired node
RunClient ==
    /\ ~panicked
    /\ queue # <<>>
    /\ Head(queue).target \in actors \cap ClientAddrs
    /\ LET msg == Head(queue).message
       IN cl' = CASE msg.type = "LockGranted" ->
                        [cl EXCEPT ![msg.txid][msg.address].phase = "held"]
                  [] msg.type = "Unreachable" ->
                        [cl EXCEPT ![msg.message.txid][Head(queue).sender].phase = "done"]
                  [] OTHER -> cl
    /\ queue' = Tail(queue)
    /\ UNCHANGED <<nodes, actors, panicked, lastH, holding, preempts>>

\* every node starts as a variable holding 0 with an empty basis
InitNodes ==
    [n \in NodeAddrs |-> ReactiveNew(ConfigVariable(StampedValue(Integer(0), EmptyBasis)))]

NoHistory == [tag |-> "None"]

Init ==
    /\ nodes = InitNodes
    /\ actors = NodeAddrs \cup ClientAddrs
    /\ queue = <<>>
    /\ panicked = FALSE
    /\ cl = [t \in Txs |-> [n \in NodeAddrs |-> Idle]]
    /\ lastH = NoHistory
    /\ holding = [n \in NodeAddrs |-> {}]
    /\ preempts = [n \in NodeAddrs |-> [t \in Txs |-> 0]]

Next ==
    \/ \E t \in Txs, n \in Contended, kind \in Kinds : CLock(t, n, kind)
    \/ \E t \in Txs, n \in Contended : CAbort(t, n)
    \/ \E t \in Txs, n \in Contended : CRetire(t, n)
    \/ \E t \in Txs, n \in Contended : CRelease(t, n)
    \/ RunNode
    \/ RunClient
    \/ RunUnreachable

Spec == Init /\ [][Next]_vars

---------------------------------------------------------------------------
(* Properties of the lock table, stated over the last handler step         *)

\* the oldest transaction of a non-empty set
Oldest(S) == CHOOSE x \in S : \A y \in S : TxLe(x, y)

\* the last step was a handler of a reactive node that ran to its end
Stepped == lastH.tag = "Some" /\ ~lastH.panic

\* the last step ran grant_locks
RanGrantLocks ==
    /\ Stepped
    /\ lastH.msg.type \in {"Lock", "Abort", "Release"}
    /\ ~lastH.retired

\* queued as grant_locks found it in the last step
EntryQueued ==
    IF lastH.msg.type = "Lock"
    THEN (lastH.msg.txid :> lastH.msg.kind) @@ lastH.before.queued
    ELSE lastH.before.queued

\* the holders grant_locks found in the last step
EntryHolders ==
    IF lastH.msg.type = "Lock" THEN Holders(lastH.before.held)
    ELSE Holders(lastH.before.held) \ {lastH.msg.txid}

\* the transactions a Preempt of the last step names, each sent to its address
Preempted == {t \in Txs : Send(t.address, Preempt(t)) \in Range(lastH.sent)}

\* the transactions granted a lock in the last step
Granted == {g.txid : g \in Grants(lastH.sent)}

\* C1 - Lock compatibility: the held field of every node is None, a set of Shared
\* holders or one Exclusive holder; the transactions granted a lock and not yet
\* released or aborted are exactly the holders of the field, and when one of them
\* holds Exclusive no other transaction holds a lock on the node.
LockCompatibility ==
    \A n \in NodeAddrs :
        /\ nodes[n].held.tag \in {"None", "Shared", "Exclusive"}
        /\ {h.txid : h \in holding[n]} = Holders(nodes[n].held)
        /\ \A h \in holding[n] :
              h.kind = (IF nodes[n].held.tag = "Exclusive" THEN "Exclusive" ELSE "Shared")
        /\ \A h1, h2 \in holding[n] : h1.kind = "Exclusive" => h1 = h2

\* an Exclusive lock handed over by an Abort or a Release while another request waits
ExclusiveHandedOver ==
    /\ Stepped
    /\ lastH.msg.type \in {"Abort", "Release"}
    /\ nodes[lastH.node].held.tag = "Exclusive"
    /\ nodes[lastH.node].held.txid \in Granted
    /\ DOMAIN nodes[lastH.node].queued # {}

\* C5 - Wound-Wait on an exclusive holder: when grant_locks runs with the lock held
\* Exclusive by H, not yet preempted, and the oldest queued request is W < H, a
\* Preempt carrying H's TxId goes to H's address, and nothing is granted.
WoundsExclusiveHolder ==
    (/\ RanGrantLocks
     /\ lastH.before.held.tag = "Exclusive"
     /\ lastH.msg.type = "Lock"
     /\ ~lastH.before.held.shared.preempting
     /\ TxLt(Oldest(DOMAIN EntryQueued), lastH.before.held.txid))
    => /\ Preempted = {lastH.before.held.txid}
       /\ Granted = {}

\* C8 - Wound-Wait hand-over: no handler step grants a lock on a node that stays
\* held Exclusive, and the step in which Abort or a non-retiring Release empties
\* held while requests are queued sends LockGranted to the oldest of them.
HandOver ==
    Stepped =>
        /\ (/\ lastH.before.held.tag = "Exclusive"
            /\ ~(lastH.msg.type \in {"Abort", "Release"}
                    /\ lastH.msg.txid = lastH.before.held.txid))
           => Granted = {}
        /\ (/\ lastH.msg.type \in {"Abort", "Release"}
            /\ ~lastH.retired
            /\ Holders(lastH.before.held) = {lastH.msg.txid}
            /\ DOMAIN lastH.before.queued # {})
           => \E i \in DOMAIN lastH.sent :
                 /\ lastH.sent[i].target = Oldest(DOMAIN lastH.before.queued).address
                 /\ lastH.sent[i].message.type = "LockGranted"
                 /\ lastH.sent[i].message.txid = Oldest(DOMAIN lastH.before.queued)
                 /\ lastH.sent[i].message.address = lastH.node

\* the younger holder of the Exclusive lock aborts and the older Exclusive request
\* that was queued behind it is granted
OlderGrantedAtAbort ==
    /\ Stepped
    /\ lastH.msg.type = "Abort"
    /\ lastH.before.held.tag = "Exclusive"
    /\ \E t \in DOMAIN lastH.before.queued :
          /\ TxLt(t, lastH.msg.txid)
          /\ lastH.before.queued[t] = "Exclusive"
          /\ t \in Granted

\* C9 - Preempt is idempotent: while a transaction holds a lock on a node, the node
\* has sent at most one Preempt naming it.
PreemptIdempotent ==
    \A n \in NodeAddrs : \A h \in holding[n] : preempts[n][h.txid] <= 1

\* grant_locks ran again over a Shared holder it had preempted before, the older
\* Exclusive request still waiting
PreemptedHolderRescanned ==
    /\ RanGrantLocks
    /\ lastH.msg.type \in {"Abort", "Release"}
    /\ \E h \in holding[lastH.node] :
          /\ preempts[lastH.node][h.txid] = 1
          /\ h.txid \in EntryHolders
          /\ lastH.before.held.shared[h.txid].preempting
          /\ \E c \in DOMAIN lastH.after.queued :
                lastH.after.queued[c] = "Exclusive" /\ TxLt(c, h.txid)

\* grant_locks found Shared holders and an Exclusive request in queued
SharedHeldExclusiveQueued ==
    /\ RanGrantLocks
    /\ lastH.before.held.tag = "Shared"
    /\ EntryHolders # {}
    /\ \E c \in DOMAIN EntryQueued : EntryQueued[c] = "Exclusive"

\* the first queued request that cannot be granted next to Shared holders
FirstExclusive == Oldest({c \in DOMAIN EntryQueued : EntryQueued[c] = "Exclusive"})

\* C10 as stated - Wound-Wait on shared holders: Preempt goes to exactly the Shared
\* holders whose TxId >= C, and only the requests older than C are granted.
WoundsSharedHolders ==
    SharedHeldExclusiveQueued =>
        /\ Preempted = {h \in EntryHolders : TxLe(FirstExclusive, h)}
        /\ Granted = {t \in DOMAIN EntryQueued : TxLt(t, FirstExclusive)}

\* C10 - Wound-Wait on shared holders: Preempt goes to exactly the Shared holders
\* whose TxId >= C and whose preempting flag is still clear, to no holder older
\* than C, and only the requests older than C are granted.
WoundsUnflaggedSharedHolders ==
    SharedHeldExclusiveQueued =>
        /\ Preempted = {h \in EntryHolders :
                          /\ TxLe(FirstExclusive, h)
                          /\ ~lastH.before.held.shared[h].preempting}
        /\ Granted = {t \in DOMAIN EntryQueued : TxLt(t, FirstExclusive)}

\* a younger Shared holder is preempted, an older one is not, and a Shared request
\* queued behind C stays queued
YoungerSharedWounded ==
    /\ SharedHeldExclusiveQueued
    /\ Preempted # {}
    /\ \E h \in EntryHolders : TxLt(h, FirstExclusive)

---------------------------------------------------------------------------
(* Transactions: manager/transaction.rs.  The operators thread a record m  *)
(* = [state, sent, panic]: the TransactionState, the messages handed to    *)
(* Context::send so far, and whether the handler has panicked.             *)

\* actor.rs VersionedAddress {address, version}
VersionedAddress(a, v) == [address |-> a, version |-> v]

\* expr.rs Ident::Existing
Existing(va) == [tag |-> "Existing", address |-> va]

\* expr.rs Action
ActionSeq(a, b) == [tag |-> "Seq", a |-> a, b |-> b]
ActionWrite(ident, expr) == [tag |-> "Write", ident |-> ident, expr |-> expr]
Nil == [tag |-> "Nil"]

\* expr.rs Upgrade::Seq and Upgrade::Del, the upgrades of this model
UpgradeSeq(a, b) == [tag |-> "Seq", a |-> a, b |-> b]
UpgradeDel(va) == [tag |-> "Del", address |-> va]

\* TransactionKind
KindAction(a) == [tag |-> "Action", action |-> a]
KindUpgrade(u) == [tag |-> "Upgrade", upgrade |-> u]

\* LockValue::None(ReadRequest::None | ReadRequest::Pending); LockValue::Some
\* is a StampedValue
LockValueNone(request) == [tag |-> "None", request |-> request]

\* Option<Version>
SomeVersion(v) == [tag |-> "Some", version |-> v]

\* the Lock that lock_granted inserts, transaction.rs 164-173
NewLock(version, kind) ==
    [value |-> LockValueNone("None"), wrote |-> FALSE, version |-> version,
     node_kind |-> kind]

\* TransactionState::new
TransactionStateNew(id) ==
    [id |-> id,
     may_write |-> {},
     pending_locks |-> [a \in {} |-> None],
     locks |-> [a \in {} |-> None],
     nodes |-> {}]

\* a handler that has sent nothing yet
Running(state) == [state |-> state, sent |-> <<>>, panic |-> FALSE]

\* lock_inner asking for every lock as Shared
lock_inner_shared(m, address, version, kind) ==
    IF address \in DOMAIN m.state.locks
    THEN [m |-> m, lock |-> [tag |-> "Some", lock |-> m.state.locks[address]]]
    ELSE IF address \in DOMAIN m.state.pending_locks
    THEN [m |-> [m EXCEPT !.state.pending_locks[address] = version,
                          !.panic = @ \/ (/\ m.state.pending_locks[address].tag = "Some"
                                          /\ version.tag = "Some"
                                          /\ m.state.pending_locks[address] # version)],
          lock |-> None]
    ELSE [m |-> [m EXCEPT !.state.pending_locks = (address :> version) @@ @,
                          !.sent = Append(@, Send(address, Lock(m.state.id, "Shared")))],
          lock |-> None]

\* lock_inner asking again for a lock that is pending
lock_inner_again(m, address, version, kind) ==
    IF address \in DOMAIN m.state.locks
    THEN [m |-> m, lock |-> [tag |-> "Some", lock |-> m.state.locks[address]]]
    ELSE [m |-> [m EXCEPT !.state.pending_locks =
                             (address :> version) @@
                                [a \in DOMAIN @ \ {address} |-> @[a]],
                          !.sent = Append(@, Send(address,
                                      Lock(m.state.id,
                                           IF address \in m.state.may_write
                                           THEN "Exclusive" ELSE kind)))],
          lock |-> None]

\* TransactionState::lock_inner: [m, lock]
lock_inner(m, address, version, kind) ==
    IF address \in DOMAIN m.state.locks
    THEN [m |-> m, lock |-> [tag |-> "Some", lock |-> m.state.locks[address]]]
    ELSE IF address \in DOMAIN m.state.pending_locks
    THEN [m |-> [m EXCEPT !.state.pending_locks[address] = version,
                          !.panic = @ \/ (/\ m.state.pending_locks[address].tag = "Some"
                                          /\ version.tag = "Some"
                                          /\ m.state.pending_locks[address] # version)],
          lock |-> None]
    ELSE [m |-> [m EXCEPT !.state.pending_locks = (address :> version) @@ @,
                          !.sent = Append(@, Send(address,
                                      Lock(m.state.id,
                                           IF address \in m.state.may_write
                                           THEN "Exclusive" ELSE kind)))],
          lock |-> None]

\* TransactionState::lock_versioned with the expect of each of its callers: a
\* VersionMismatch panics
lock_versioned(m, address, kind) ==
    With(lock_inner(m, address.address, SomeVersion(address.version), kind), LAMBDA r :
        IF r.lock.tag = "Some" /\ r.lock.lock.version # address.version
        THEN [r EXCEPT !.m.panic = TRUE]
        ELSE r)

\* transaction.rs 286-301: the lock after the write of value
written(lock, address, value) ==
    [lock EXCEPT !.value = StampedValue(value,
                    add(IF lock.value.tag = "Some" THEN lock.value.basis ELSE EmptyBasis,
                        address, lock.node_kind.iteration)),
                 !.wrote = TRUE]

\* TransactionState::write: [m, done].  A node staged as Del falls through
\* to the lock (266); no other node is staged by the upgrades of this model.
write(m, ident, value) ==
    With(lock_versioned(m, ident, "Exclusive"), LAMBDA r :
        IF r.m.panic \/ r.lock.tag = "None" THEN [m |-> r.m, done |-> FALSE]
        ELSE IF r.lock.lock.node_kind.tag # "Variable"
        THEN [m |-> [r.m EXCEPT !.panic = TRUE], done |-> FALSE]
        ELSE IF r.lock.lock.value = LockValueNone("Pending")
        THEN [m |-> r.m, done |-> FALSE]
        ELSE [m |-> [r.m EXCEPT
                        !.state.locks[ident.address] =
                            written(r.lock.lock, ident.address, value),
                        !.sent = Append(@, Send(ident.address,
                                                Write(r.m.state.id, value)))],
              done |-> TRUE])

RECURSIVE AddrSeq(_)
\* the addresses of S in ascending order
AddrSeq(S) ==
    IF S = {} THEN <<>>
    ELSE LET a == CHOOSE x \in S : \A y \in S : x <= y
         IN <<a>> \o AddrSeq(S \ {a})

\* transaction.rs 374-378: the root ancestors of a definition
roots_of(kind) ==
    IF kind.tag = "Definition"
    THEN AddrSeq({a \in DOMAIN kind.ancestors : kind.ancestors[a].is_root})
    ELSE <<>>

RECURSIVE lock_roots(_, _, _)
\* transaction.rs 374-390: [m, basis, ready]
lock_roots(m, roots, basis) ==
    IF roots = <<>> THEN [m |-> m, basis |-> basis, ready |-> TRUE]
    ELSE With(lock_inner(m, Head(roots), None, "Shared"), LAMBDA r :
            IF r.m.panic \/ r.lock.tag = "None"
            THEN [m |-> r.m, basis |-> basis, ready |-> FALSE]
            ELSE IF r.lock.lock.node_kind.tag # "Variable"
            THEN [m |-> [r.m EXCEPT !.panic = TRUE], basis |-> basis, ready |-> FALSE]
            ELSE lock_roots(r.m, Tail(roots),
                            add(basis, Head(roots), r.lock.lock.node_kind.iteration)))

\* request_read leaving the lock without the mark of the outstanding Read
request_read_unmarked(m, address, lock) ==
    With(lock_roots(m, roots_of(lock.node_kind), EmptyBasis), LAMBDA l :
        IF ~l.ready THEN [m |-> l.m, value |-> None]
        ELSE [m |-> [l.m EXCEPT
                        !.sent = Append(@, Send(address, Read(l.m.state.id, l.basis)))],
              value |-> None])

\* transaction.rs 370-405: the Read is sent once the roots are locked
request_read(m, address, lock) ==
    With(lock_roots(m, roots_of(lock.node_kind), EmptyBasis), LAMBDA l :
        IF ~l.ready THEN [m |-> l.m, value |-> None]
        ELSE [m |-> [l.m EXCEPT
                        !.sent = Append(@, Send(address, Read(l.m.state.id, l.basis))),
                        !.state.locks[address].value = LockValueNone("Pending")],
              value |-> None])

\* TransactionState::read: [m, value]
read(m, ident) ==
    With(lock_versioned(m, ident, "Shared"), LAMBDA r :
        IF r.m.panic \/ r.lock.tag = "None" THEN [m |-> r.m, value |-> None]
        ELSE IF r.lock.lock.value.tag = "Some"
        THEN [m |-> r.m, value |-> [tag |-> "Some", value |-> r.lock.lock.value.value]]
        ELSE IF r.lock.lock.value.request = "None"
        THEN request_read(r.m, ident.address, r.lock.lock)
        ELSE [m |-> r.m, value |-> None])

RECURSIVE eval_in(_, _)
RECURSIVE eval_items(_, _, _)
\* expr/eval.rs 204-209: the items of a tuple, each evaluated in turn
eval_items(m, items, done) ==
    IF items = <<>> THEN [m |-> m, items |-> done]
    ELSE With(eval_in(m, Head(items)), LAMBDA r :
            eval_items(r.m, Tail(items), Append(done, r.e)))

\* expr/eval.rs Expr::eval against the transaction's EvalContext: [m, e]
eval_in(m, e) ==
    CASE e.tag = "Value" -> [m |-> m, e |-> e]
      [] e.tag = "Read" ->
            With(read(m, e.addr), LAMBDA r :
                [m |-> r.m,
                 e |-> IF r.value.tag = "Some" THEN ExprValue(r.value.value) ELSE e])
      [] e.tag = "Tuple" ->
            With(eval_items(m, e.items, <<>>), LAMBDA r :
                [m |-> r.m,
                 e |-> IF \A i \in DOMAIN r.items : r.items[i].tag = "Value"
                       THEN ExprValue(ValueTuple(
                                [i \in DOMAIN r.items |-> r.items[i].value]))
                       ELSE ExprTuple(r.items)])

RECURSIVE action_eval(_, _)
\* expr/eval.rs Action::eval: [m, action]
action_eval(m, a) ==
    CASE a.tag = "Seq" ->
            With(action_eval(m, a.a), LAMBDA ra :
                IF ra.action.tag = "Nil" THEN action_eval(ra.m, a.b)
                ELSE [m |-> ra.m, action |-> ActionSeq(ra.action, a.b)])
      [] a.tag = "Write" ->
            With(eval_in(m, a.expr), LAMBDA re :
                IF re.e.tag # "Value"
                THEN [m |-> re.m, action |-> ActionWrite(a.ident, re.e)]
                ELSE With(write(re.m, a.ident, re.e.value), LAMBDA w :
                        [m |-> w.m,
                         action |-> IF w.done THEN Nil
                                    ELSE ActionWrite(a.ident, re.e)]))
      [] a.tag = "Nil" -> [m |-> m, action |-> a]

RECURSIVE visit_writes(_)
\* the writes of an action in the order of Action::traverse_inner, each
\* definite because an action has no control flow
visit_writes(a) ==
    CASE a.tag = "Seq" -> visit_writes(a.a) \o visit_writes(a.b)
      [] a.tag = "Write" -> <<[address |-> a.ident, definite |-> TRUE]>>
      [] a.tag = "Nil" -> <<>>

RECURSIVE lock_writes(_, _)
\* transaction.rs 77-85: the closure applied to each visited write
lock_writes(m, writes) ==
    IF writes = <<>> THEN m
    ELSE lock_writes(
            IF Head(writes).definite
            THEN lock_versioned(m, Head(writes).address, "Exclusive").m
            ELSE [m EXCEPT !.state.may_write = @ \cup {Head(writes).address.address}],
            Tail(writes))

RECURSIVE visit_upgrades(_)
\* the nodes an upgrade targets, in the order of its steps
visit_upgrades(u) ==
    CASE u.tag = "Seq" -> visit_upgrades(u.a) \o visit_upgrades(u.b)
      [] u.tag = "Del" -> <<u.address>>
      [] u.tag = "Nil" -> <<>>

RECURSIVE lock_upgrades(_, _)
\* transaction.rs 98-102: the closure applied to each visited node
lock_upgrades(m, targets) ==
    IF targets = <<>> THEN m
    ELSE lock_upgrades(lock_versioned(m, Head(targets), "Exclusive").m, Tail(targets))

RECURSIVE upgrade_eval(_, _)
\* expr/eval.rs Upgrade::eval with EvalContext::del (transaction.rs 438-440):
\* [m, upgrade]
upgrade_eval(m, u) ==
    CASE u.tag = "Seq" ->
            With(upgrade_eval(m, u.a), LAMBDA ra :
                IF ra.upgrade.tag = "Nil" THEN upgrade_eval(ra.m, u.b)
                ELSE [m |-> ra.m, upgrade |-> UpgradeSeq(ra.upgrade, u.b)])
      [] u.tag = "Del" ->
            [m |-> [m EXCEPT !.state.nodes = @ \cup {Existing(u.address)}],
             upgrade |-> Nil]
      [] u.tag = "Nil" -> [m |-> m, upgrade |-> u]

\* transaction.rs 119-129: the fold of the bases of the locks that have a value
commit_basis(state) ==
    merge_all({state.locks[a].value.basis :
                 a \in {x \in DOMAIN state.locks : state.locks[x].value.tag = "Some"}})

\* the Release of finish_action to one lock
release_to(state, address) == Send(address, Release(state.id, commit_basis(state)))

\* Transaction::finish_action: the messages it sends; order is the order in
\* which the HashMap yields the addresses
finish_action(state, order) ==
    [i \in 1 .. Len(SelectSeq(order, LAMBDA a : a \in DOMAIN state.locks)) |->
        release_to(state, SelectSeq(order, LAMBDA a : a \in DOMAIN state.locks)[i])]

\* Transaction::process_upgrade: nothing is sent
process_upgrade(state) == <<>>

\* transaction.rs 75-96
eval_action(tx, order) ==
    With(lock_writes(Running([tx.state EXCEPT !.may_write = {}]),
                     visit_writes(tx.kind.action)), LAMBDA l :
    With(action_eval(l, tx.kind.action), LAMBDA r :
        [tx |-> [kind |-> KindAction(r.action), state |-> r.m.state],
         sent |-> r.m.sent \o (IF r.action.tag = "Nil"
                               THEN finish_action(r.m.state, order) ELSE <<>>),
         panic |-> r.m.panic]))

\* transaction.rs 97-113
eval_upgrade(tx, order) ==
    With(lock_upgrades(Running(tx.state), visit_upgrades(tx.kind.upgrade)), LAMBDA l :
    With(upgrade_eval(l, tx.kind.upgrade), LAMBDA r :
        [tx |-> [kind |-> KindUpgrade(r.upgrade), state |-> r.m.state],
         sent |-> r.m.sent \o (IF r.upgrade.tag = "Nil"
                               THEN process_upgrade(r.m.state) ELSE <<>>),
         panic |-> r.m.panic]))

\* Transaction::eval: [tx, sent, panic]
Transaction_eval(tx, order) ==
    IF tx.kind.tag = "Action" THEN eval_action(tx, order) ELSE eval_upgrade(tx, order)

\* Transaction::new
TransactionNew(id, kind) == [kind |-> kind, state |-> TransactionStateNew(id)]

\* Transaction::lock_granted: [tx, panic]
lock_granted(tx, address, version, kind) ==
    IF address \notin DOMAIN tx.state.pending_locks THEN [tx |-> tx, panic |-> TRUE]
    ELSE IF /\ tx.state.pending_locks[address].tag = "Some"
            /\ tx.state.pending_locks[address].version # version
    THEN [tx |-> tx, panic |-> TRUE]
    ELSE [tx |-> [tx EXCEPT
                    !.state.pending_locks =
                        [a \in DOMAIN @ \ {address} |-> @[a]],
                    !.state.locks = (address :> NewLock(version, kind)) @@ @],
          panic |-> FALSE]

\* Transaction::read_result: [tx, panic]
read_result(tx, address, value) ==
    IF address \notin DOMAIN tx.state.locks THEN [tx |-> tx, panic |-> TRUE]
    ELSE IF tx.state.locks[address].value # LockValueNone("Pending")
    THEN [tx |-> tx, panic |-> TRUE]
    ELSE [tx |-> [tx EXCEPT !.state.locks[address].value = value], panic |-> FALSE]

---------------------------------------------------------------------------
(* The manager: old-manager.rs.  A manager is [latest, transactions]; a    *)
(* handler yields [mg, sent, panic, tx], tx the transaction it evaluated.  *)

\* Manager::new
ManagerNew == [latest |-> 0, transactions |-> [t \in {} |-> None]]

\* a handler that panicked before it evaluated a transaction
ManagerPanic(mg) == [mg |-> mg, sent |-> <<>>, panic |-> TRUE, tx |-> None]

\* whether Transaction::eval reports the transaction as done: its action or
\* upgrade is Nil (manager.rs 102-131)
is_done(tx) ==
    IF tx.kind.tag = "Action" THEN tx.kind.action.tag = "Nil"
    ELSE tx.kind.upgrade.tag = "Nil"

\* old-manager.rs 67-69 after the evaluation r of txid
evaluated(mg, txid, r) ==
    [mg |-> [mg EXCEPT !.transactions =
                IF is_done(r.tx)
                THEN [t \in DOMAIN @ \ {txid} |-> @[t]]
                ELSE (txid :> r.tx) @@ @],
     sent |-> r.sent,
     panic |-> r.panic,
     tx |-> [tag |-> "Some", tx |-> r.tx]]

\* Manager::eval_tx
eval_tx(mg, txid, order) ==
    IF txid \notin DOMAIN mg.transactions THEN ManagerPanic(mg)
    ELSE evaluated(mg, txid, Transaction_eval(mg.transactions[txid], order))

\* message.rs 231-247: the timestamp after latest, the clock having advanced
\* by the least amount
generate_timestamp(last) == last + 1

\* the transaction id minted by do_action and do_upgrade
mint(mg, me, priority) ==
    [priority |-> priority, timestamp |-> generate_timestamp(mg.latest), address |-> me]

\* old-manager.rs 39-43 and 53-57
start(mg, txid, kind, order) ==
    eval_tx([mg EXCEPT !.latest = txid.timestamp,
                       !.transactions = (txid :> TransactionNew(txid, kind)) @@ @],
            txid, order)

\* Manager::do_action
do_action(mg, me, action, order) ==
    start(mg, mint(mg, me, Low), KindAction(action), order)

\* Manager::do_upgrade
do_upgrade(mg, me, upgrade, order) ==
    start(mg, mint(mg, me, High), KindUpgrade(upgrade), order)

\* old-manager.rs 83-94 and 95-108 after lock_granted or read_result gave r
resumed(mg, txid, r, order) ==
    IF r.panic THEN ManagerPanic(mg)
    ELSE eval_tx([mg EXCEPT !.transactions[txid] = r.tx], txid, order)

\* message.rs Message::Do and Message::Upgrade
Do(action) == [type |-> "Do", action |-> action]
Upgrade(upgrade) == [type |-> "Upgrade", upgrade |-> upgrade]

\* Manager::handle
ManagerHandle(mg, me, msg, order) ==
    CASE msg.type = "Do" -> do_action(mg, me, msg.action, order)
      [] msg.type = "Upgrade" -> do_upgrade(mg, me, msg.upgrade, order)
      [] msg.type = "LockGranted" ->
            IF msg.txid \notin DOMAIN mg.transactions THEN ManagerPanic(mg)
            ELSE resumed(mg, msg.txid,
                         lock_granted(mg.transactions[msg.txid], msg.address,
                                      msg.version, msg.node_kind), order)
      [] msg.type = "ReadResult" ->
            IF msg.txid \notin DOMAIN mg.transactions THEN ManagerPanic(mg)
            ELSE resumed(mg, msg.txid,
                         read_result(mg.transactions[msg.txid], msg.address,
                                     msg.value), order)
      [] OTHER -> ManagerPanic(mg)

---------------------------------------------------------------------------
(* Transactions driven by one manager: a user submits actions and upgrades *)
(* over the variables; the manager and the nodes answer each other through *)
(* the router.  Here cl is [manager, submitted].                           *)

\* the number of Do and Upgrade messages the user submits
MaxDo == 2

ManagerAddr == ClientBase + 1
UserAddr == ClientBase + 2

\* node a at its initial version
V(a) == VersionedAddress(a, 0)

\* the last node is a definition, the others are variables
DefNode == NumNodes
Other == NumNodes - 1

\* the actions the user submits: a write of a value read from another variable,
\* a blind write, a sequence whose second write reads what the first wrote, and
\* a write of the value read from the definition
Actions ==
    {ActionWrite(V(1), ExprRead(V(Other))),
     ActionWrite(V(Other), ExprValue(Integer(1))),
     ActionSeq(ActionWrite(V(1), ExprValue(Integer(2))),
               ActionWrite(V(Other),
                           ExprTuple(<<ExprRead(V(1)), ExprValue(Integer(3))>>))),
     ActionWrite(V(Other), ExprRead(V(DefNode)))}

\* the upgrades the user submits
Upgrades ==
    {UpgradeDel(V(1)),
     UpgradeSeq(UpgradeDel(V(Other)), UpgradeDel(V(1)))}

\* message.rs Ancestor {is_root}
Root == [is_root |-> TRUE]

\* the variables hold 0 with an empty basis; the definition reads the first
\* variable, its root
InitMgrNodes ==
    [n \in NodeAddrs |->
        IF n = DefNode
        THEN ReactiveNew(ConfigDefinition(ExprRead(1),
                            (1 :> [ancestors |-> (1 :> Root)])))
        ELSE ReactiveNew(ConfigVariable(StampedValue(Integer(0), EmptyBasis)))]

\* main.rs 60-75: an actor hands a request to the manager
CDo(action) ==
    /\ ~panicked
    /\ cl.submitted < MaxDo
    /\ cl' = [cl EXCEPT !.submitted = @ + 1]
    /\ queue' = Enqueue(queue, UserAddr, <<Send(ManagerAddr, Do(action))>>)
    /\ UNCHANGED <<nodes, actors, panicked, lastH, holding, preempts>>

CUpgrade(upgrade) ==
    /\ ~panicked
    /\ cl.submitted < MaxDo
    /\ cl' = [cl EXCEPT !.submitted = @ + 1]
    /\ queue' = Enqueue(queue, UserAddr, <<Send(ManagerAddr, Upgrade(upgrade))>>)
    /\ UNCHANGED <<nodes, actors, panicked, lastH, holding, preempts>>

\* actor.rs 90-104 with the manager as the target: Manager::handle runs to
\* completion; order is the order in which finish_action visits its locks
RunManager ==
    /\ ~panicked
    /\ queue # <<>>
    /\ Head(queue).target = ManagerAddr
    /\ ManagerAddr \in actors
    /\ \E order \in Orders(NodeAddrs) :
         \E r \in {ManagerHandle(cl.manager, ManagerAddr, Head(queue).message, order)} :
            /\ cl' = [cl EXCEPT !.manager = r.mg]
            /\ panicked' = r.panic
            /\ queue' = Enqueue(Tail(queue), ManagerAddr, r.sent)
            /\ lastH' = [tag |-> "Some", node |-> ManagerAddr, msg |-> Head(queue).message,
                         before |-> cl.manager, after |-> r.mg, sent |-> r.sent,
                         retired |-> FALSE, panic |-> r.panic, tx |-> r.tx]
    /\ UNCHANGED <<nodes, actors, holding, preempts>>

InitMgr ==
    /\ nodes = InitMgrNodes
    /\ actors = NodeAddrs \cup {ManagerAddr, UserAddr}
    /\ queue = <<>>
    /\ panicked = FALSE
    /\ cl = [manager |-> ManagerNew, submitted |-> 0]
    /\ lastH = NoHistory
    /\ holding = [n \in NodeAddrs |-> {}]
    /\ preempts = [n \in NodeAddrs |-> [t \in Txs |-> 0]]

NextMgr ==
    \/ \E action \in Actions : CDo(action)
    \/ \E upgrade \in Upgrades : CUpgrade(upgrade)
    \/ RunNode
    \/ RunManager

SpecMgr == InitMgr /\ [][NextMgr]_vars

---------------------------------------------------------------------------
(* Properties of the commit, stated over the last handler step             *)

\* the last step was a handler of the manager that ran to its end with an
\* action reduced to Nil
Committed ==
    /\ lastH.tag = "Some"
    /\ lastH.node = ManagerAddr
    /\ ~lastH.panic
    /\ lastH.tx.tag = "Some"
    /\ lastH.tx.tx.kind = KindAction(Nil)

\* the Release messages the last step sent
Releases == {s \in Range(lastH.sent) : s.message.type = "Release"}

\* the stamps of the locks of the committed transaction that have a value
CommittedStamps ==
    {lastH.tx.tx.state.locks[a].value.basis :
        a \in {x \in DOMAIN lastH.tx.tx.state.locks :
                 lastH.tx.tx.state.locks[x].value.tag = "Some"}}

\* every lock of the committed action is sent one Release, and every Release
\* carries the merge of the stamps the transaction gathered
OneCommitBasis ==
    Committed =>
        /\ {s.target : s \in Releases} = DOMAIN lastH.tx.tx.state.locks
        /\ Cardinality({i \in DOMAIN lastH.sent : lastH.sent[i].message.type = "Release"})
              = Cardinality(DOMAIN lastH.tx.tx.state.locks)
        /\ \A s \in Releases :
              /\ s.message.txid = lastH.tx.tx.state.id
              /\ s.message.basis = merge_all(CommittedStamps)

\* the last step was a node applying the Release of a lock holder
ReleaseApplied ==
    /\ Stepped
    /\ lastH.node \in NodeAddrs
    /\ lastH.msg.type = "Release"

\* the released lock was Exclusive and carried a write
ReleasedWrite ==
    /\ lastH.before.held.tag = "Exclusive"
    /\ lastH.before.held.exclusive.tag = "Write"

\* the released lock carried a completed read and no write
ReleasedRead ==
    /\ ~ReleasedWrite
    /\ shared(lastH.before.held, lastH.msg.txid).state.read = ReadComplete

\* the stamp merged into reads at the Release of a completed read is the commit
\* basis
ReadRecorded ==
    (ReleaseApplied /\ ReleasedRead)
        => lastH.after.reads = merge_from(lastH.before.reads, lastH.msg.basis)

\* C4 as stated - Commit atomicity: every lock of a committing action receives
\* Release with one and the same commit basis, and the basis the node records
\* (stamped on the written value, or merged into reads for a completed read)
\* equals that commit basis.
CommitBasisRecorded ==
    /\ OneCommitBasis
    /\ ReadRecorded
    /\ (ReleaseApplied /\ ReleasedWrite) => lastH.after.value.basis = lastH.msg.basis

\* C4 - Commit atomicity: every lock of a committing action receives Release with
\* one and the same commit basis; the stamp merged into reads for a completed
\* read is that commit basis, and the basis stamped on a written value is the
\* commit basis merged with the reads stamp the node had accumulated.
CommitBasisRecordedOverReads ==
    /\ OneCommitBasis
    /\ ReadRecorded
    /\ (ReleaseApplied /\ ReleasedWrite)
          => /\ lastH.after.value.basis = merge_from(lastH.msg.basis, lastH.before.reads)
             /\ lastH.after.reads = EmptyBasis

\* a write is released on a node whose reads stamp holds a root the commit
\* basis lacks
WrittenOverReads ==
    /\ ReleaseApplied
    /\ ReleasedWrite
    /\ DOMAIN lastH.before.reads \ DOMAIN lastH.msg.basis # {}

---------------------------------------------------------------------------
(* Release of granted locks                                                *)

\* actor.rs 71: the queue is empty, System::run returns; nothing is left that
\* could make a transaction go on
Quiescent == queue = <<>> /\ ~panicked

\* C7 - Every LockGranted a node sends to a transaction is followed by the Release
\* or the Abort of that transaction for that node, for actions and upgrades
\* alike: once every message has been handled, no granted lock is left held.
GrantedLocksReleased ==
    Quiescent => \A n \in NodeAddrs : holding[n] = {}

---------------------------------------------------------------------------
(* Reads, writes and reconfigurations driven by clients that stand for     *)
(* transactions: a client locks a node and, when the lock is granted,      *)
(* sends the operations of its transaction and then Release.  Here cl is   *)
(* the phase of each transaction on each node.                             *)

\* the number of operations a transaction sends under one lock
MaxOps == 1

\* the transactions and the nodes of this driver
DataTxs == {Tx(i) : i \in 1 .. NumTx - 1}
DataNodes == {1, Other}

\* the stamps a transaction asks for or commits with: none, or the first
\* variable at its next iteration
Bases == {EmptyBasis, (1 :> 1)}

\* the configurations a transaction installs
Configs ==
    {ConfigDefinition(ExprRead(1), (1 :> [ancestors |-> (1 :> Root)])),
     ConfigDefinition(ExprValue(Integer(5)), [a \in {} |-> Root]),
     ConfigVariable(StampedValue(Integer(7), EmptyBasis))}

\* the operations open to every lock holder: transaction.rs 393-399 Read, and
\* the subscription of the other node
SharedOps(t) ==
    {Read(t, b) : b \in Bases} \cup {UpdateSubscriptions(t, (Other :> TRUE))}

\* the operations open to an Exclusive holder: also transaction.rs 303-309
\* Write, and Reconfigure
ExclusiveOps(t) ==
    SharedOps(t) \cup {Write(t, Integer(1))} \cup {Reconfigure(t, c) : c \in Configs}

\* the sequences of at most MaxOps operations of S
Scripts(S) == UNION {[1 .. k -> S] : k \in 0 .. MaxOps}

\* transaction.rs 222-255 lock_inner: Lock is sent once per node.  A transaction
\* starts on a node while the router is idle: the contention over a lock is the
\* subject of the lock protocol above.
DLock(t, n, kind) ==
    /\ ~panicked
    /\ queue = <<>>
    /\ cl[t][n] = "idle"
    /\ cl' = [cl EXCEPT ![t][n] = kind]
    /\ queue' = Enqueue(queue, t.address, <<Send(n, Lock(t, kind))>>)
    /\ UNCHANGED <<nodes, actors, panicked, lastH, holding, preempts>>

\* what a client sends when its lock on node n is granted: its operations,
\* then the Release of transaction.rs 131-139
Transact(t, n, script, basis) ==
    [i \in 1 .. Len(script) + 1 |->
        IF i <= Len(script) THEN Send(n, script[i]) ELSE Send(n, Release(t, basis))]

\* actor.rs 90-104 with a client as the target
RunDataClient ==
    /\ ~panicked
    /\ queue # <<>>
    /\ Head(queue).target \in actors \cap ClientAddrs
    /\ LET msg == Head(queue).message
       IN IF msg.type = "LockGranted"
          THEN \E script \in Scripts(IF cl[msg.txid][msg.address] = "Exclusive"
                                     THEN ExclusiveOps(msg.txid)
                                     ELSE SharedOps(msg.txid)),
                  basis \in Bases :
                 /\ cl' = [cl EXCEPT ![msg.txid][msg.address] = "done"]
                 /\ queue' = Enqueue(Tail(queue), msg.txid.address,
                                     Transact(msg.txid, msg.address, script, basis))
          ELSE /\ cl' = cl
               /\ queue' = Tail(queue)
    /\ UNCHANGED <<nodes, actors, panicked, lastH, holding, preempts>>

InitData ==
    /\ nodes = InitNodes
    /\ actors = NodeAddrs \cup ClientAddrs
    /\ queue = <<>>
    /\ panicked = FALSE
    /\ cl = [t \in DataTxs |-> [n \in DataNodes |-> "idle"]]
    /\ lastH = NoHistory
    /\ holding = [n \in NodeAddrs |-> {}]
    /\ preempts = [n \in NodeAddrs |-> [t \in Txs |-> 0]]

NextData ==
    \/ \E t \in DataTxs, n \in DataNodes, kind \in Kinds : DLock(t, n, kind)
    \/ RunDataClient
    \/ RunNode

SpecData == InitData /\ [][NextData]_vars

---------------------------------------------------------------------------
(* Properties of reads, stated over the last handler step                  *)

\* the ReadResult messages the last step sent
ReadResults ==
    {s.message : s \in {x \in Range(lastH.sent) : x.message.type = "ReadResult"}}

\* the last step answered a Read of t: the one it handled, or one it had left
\* pending
Answers(t) ==
    \/ lastH.msg.type = "Read" /\ lastH.msg.txid = t
    \/ /\ shared(lastH.before.held, t).tag = "Some"
       /\ shared(lastH.before.held, t).state.read.tag = "Pending"

\* the basis of the Read of t that the last step answered
RequestBasis(t) ==
    IF lastH.msg.type = "Read" /\ lastH.msg.txid = t THEN lastH.msg.basis
    ELSE shared(lastH.before.held, t).state.read.basis

\* C3 - Consistent-snapshot reads: every ReadResult a node sends answers a Read of
\* the transaction it names and carries a value whose basis dominates the basis
\* of that Read on every ancestor root of the node.
SnapshotReads ==
    (Stepped /\ lastH.node \in NodeAddrs) =>
        \A r \in ReadResults :
            /\ Answers(r.txid)
            /\ r.address = lastH.node
            /\ r.value.tag = "Some"
            /\ prec_eq_wrt_ancestors(RequestBasis(r.txid), r.value.basis,
                                     my_ancestors(lastH.after))

\* a node that has ancestor roots answers a Read
AncestoredReadAnswered ==
    /\ Stepped
    /\ lastH.node \in NodeAddrs
    /\ ReadResults # {}
    /\ DOMAIN my_ancestors(lastH.after) # {}


---------------------------------------------------------------------------
(* Wound-Wait between transactions that lock several nodes.  The clients   *)
(* behave as the design asks of a transaction: each one requests a lock on *)
(* every node of WWNodes, in any order and of either kind, commits with    *)
(* Release once it holds them all, and answers a Preempt that names it     *)
(* with Abort on the nodes it holds; it requests no more locks from then   *)
(* on, and a lock granted to it afterwards is aborted too.  A client acts  *)
(* when the router has delivered every message.                            *)

WWNodes == {1, Other}

WWTxs == Txs

Fresh == [lock |-> [n \in WWNodes |-> "idle"], wounded |-> FALSE]

\* every lock of the transaction has been released
WCommitted(t) == \A n \in WWNodes : cl[t].lock[n] = "released"

\* one message per node of order, built by make
ToEach(order, make(_)) == [i \in 1 .. Len(order) |-> Send(order[i], make(order[i]))]

\* manager/transaction.rs 222-255 lock_inner: Lock is sent once per node
WLock(t, n, kind) ==
    /\ ~panicked
    /\ queue = <<>>
    /\ ~cl[t].wounded
    /\ cl[t].lock[n] = "idle"
    /\ cl' = [cl EXCEPT ![t].lock[n] = "requested"]
    /\ queue' = Enqueue(queue, t.address, <<Send(n, Lock(t, kind))>>)
    /\ UNCHANGED <<nodes, actors, panicked, lastH, holding, preempts>>

\* manager/transaction.rs 131-139: with every lock held the transaction ends,
\* Release goes to each lock in the map's iteration order
WCommit(t) ==
    /\ ~panicked
    /\ queue = <<>>
    /\ ~cl[t].wounded
    /\ \A n \in WWNodes : cl[t].lock[n] = "held"
    /\ cl' = [cl EXCEPT ![t].lock = [n \in WWNodes |-> "released"]]
    /\ \E order \in Orders(WWNodes) :
          queue' = Enqueue(queue, t.address,
                           ToEach(order, LAMBDA n : Release(t, EmptyBasis)))
    /\ UNCHANGED <<nodes, actors, panicked, lastH, holding, preempts>>

\* the locks a client holds when a Preempt reaches it
HeldBy(t) == {n \in WWNodes : cl[t].lock[n] = "held"}

\* the client's answer to LockGranted: the lock is held, or aborted at once
\* when the transaction was preempted before
Obtained(t, n) ==
    IF cl[t].wounded
    THEN /\ cl' = [cl EXCEPT ![t].lock[n] = "aborted"]
         /\ queue' = Enqueue(Tail(queue), t.address, <<Send(n, Abort(t))>>)
    ELSE /\ cl' = [cl EXCEPT ![t].lock[n] = "held"]
         /\ queue' = Tail(queue)

\* the client's answer to Preempt{t}: Abort on every node t holds; a Preempt
\* that finds the transaction committed finds nothing to abort
Wounded(t) ==
    IF WCommitted(t)
    THEN cl' = cl /\ queue' = Tail(queue)
    ELSE /\ cl' = [cl EXCEPT ![t].wounded = TRUE,
                             ![t].lock = [n \in WWNodes |->
                                            IF n \in HeldBy(t) THEN "aborted" ELSE @[n]]]
         /\ \E order \in Orders(HeldBy(t)) :
               queue' = Enqueue(Tail(queue), t.address,
                                ToEach(order, LAMBDA n : Abort(t)))

\* actor.rs 90-104 with a client as the target
RunWWClient ==
    /\ ~panicked
    /\ queue # <<>>
    /\ Head(queue).target \in actors \cap ClientAddrs
    /\ LET msg == Head(queue).message
       IN CASE msg.type = "LockGranted" -> Obtained(msg.txid, msg.address)
            [] msg.type = "Preempt" -> Wounded(msg.txid)
            [] OTHER -> cl' = cl /\ queue' = Tail(queue)
    /\ UNCHANGED <<nodes, actors, panicked, lastH, holding, preempts>>

InitWW ==
    /\ nodes = InitNodes
    /\ actors = NodeAddrs \cup ClientAddrs
    /\ queue = <<>>
    /\ panicked = FALSE
    /\ cl = [t \in WWTxs |-> Fresh]
    /\ lastH = NoHistory
    /\ holding = [n \in NodeAddrs |-> {}]
    /\ preempts = [n \in NodeAddrs |-> [t \in Txs |-> 0]]

NextWW ==
    \/ \E t \in WWTxs, n \in WWNodes, kind \in Kinds : WLock(t, n, kind)
    \/ \E t \in WWTxs : WCommit(t)
    \/ RunNode
    \/ RunWWClient

SpecWW == InitWW /\ [][NextWW]_vars

\* the oldest of the transactions
OldestTx == Oldest(WWTxs)

\* no message is in flight, and no client has a lock left to request or a
\* commit to make
Settled ==
    /\ Quiescent
    /\ \A t \in WWTxs :
          \/ cl[t].wounded
          \/ WCommitted(t)
          \/ /\ \A n \in WWNodes : cl[t].lock[n] # "idle"
             /\ \E n \in WWNodes : cl[t].lock[n] # "held"

\* C6 - Deadlock freedom: with transactions locking several nodes in any order,
\* each answering a Preempt that names it with Abort on the nodes it holds, a run
\* never comes to rest with a transaction still waiting for a lock, and the oldest
\* transaction has by then held every lock it requested and committed.
OldestObtainsLocks ==
    Settled =>
        /\ \A t \in WWTxs : WCommitted(t) \/ cl[t].wounded
        /\ WCommitted(OldestTx)


---------------------------------------------------------------------------
(* The batch search on its own: a definition over the variable 1 and the   *)
(* node Other, which both have the variable 1 as their root.  Every input  *)
(* starts with or without a baseline and with up to MaxUpdates queued      *)
(* updates; here cl is the definition and what the search returned.        *)

\* the longest queue of updates of an input
MaxUpdates == 2

\* the sequences of at most MaxUpdates stamped values, each stamped from Bases
UpdateQueues ==
    UNION {[1 .. k -> {StampedValue(Integer(1), b) : b \in Bases}] : k \in 0 .. MaxUpdates}

\* the states of one input
InputStates ==
    {[ancestors |-> (1 :> Root), value |-> v, updates |-> u] :
        v \in {None} \cup {StampedValue(Integer(0), b) : b \in Bases},
        u \in UpdateQueues}

\* the definitions the search is applied to
BatchDefinitions ==
    {[tag |-> "Some",
      inputs |-> (1 :> a) @@ (Other :> b),
      expr |-> ExprTuple(<<ExprRead(1), ExprRead(Other)>>)] : a, b \in InputStates}

\* reactive.rs 448: find_and_apply_batch runs once on the definition
FindBatch ==
    /\ cl.out = NoHistory
    /\ \E seeds \in Orders({1, Other}), scan \in Orders({1, Other}) :
          \E r \in {find_and_apply_batch(cl.def, seeds, scan)} :
             cl' = [def |-> r.def, out |-> [tag |-> "Some", value |-> r.value,
                                            panic |-> r.panic, from |-> cl.def]]
    /\ UNCHANGED <<nodes, actors, queue, panicked, lastH, holding, preempts>>

InitBatch ==
    /\ nodes = InitNodes
    /\ actors = NodeAddrs
    /\ queue = <<>>
    /\ panicked = FALSE
    /\ cl \in {[def |-> d, out |-> NoHistory] : d \in BatchDefinitions}
    /\ lastH = NoHistory
    /\ holding = [n \in NodeAddrs |-> {}]
    /\ preempts = [n \in NodeAddrs |-> [t \in Txs |-> 0]]

SpecBatch == InitBatch /\ [][FindBatch]_vars

\* the search returns no value and leaves the definition as it found it,
\* whatever the baselines and the queues are
BatchNeverFound ==
    cl.out # NoHistory =>
        /\ cl.out.value = None
        /\ ~cl.out.panic
        /\ cl.def = cl.out.from

\* a run of the search over two inputs that both have updates queued
BatchSearched ==
    /\ cl.out # NoHistory
    /\ \A a \in DOMAIN cl.out.from.inputs : cl.out.from.inputs[a].updates # <<>>


---------------------------------------------------------------------------
(* A definition over one variable: the variable 1 has the definition       *)
(* DefNode = Read(1) as its subscriber, and the client UserAddr subscribes *)
(* to the definition.  Transactions lock the variable Exclusive, write it  *)
(* and release with the variable's next iteration as the basis.  Here cl   *)
(* holds each transaction's phase and the Propagate messages the           *)
(* subscribed client has received.                                         *)

\* the integers the transactions write
PipeValues == {2, 3}

InitPipeNodes ==
    [n \in NodeAddrs |->
        IF n = 1 THEN [InitMgrNodes[n] EXCEPT !.subscribers = {DefNode}]
        ELSE IF n = DefNode THEN [InitMgrNodes[n] EXCEPT !.subscribers = {UserAddr}]
        ELSE InitMgrNodes[n]]

\* transaction.rs 222-255 lock_inner: Lock{Exclusive} is sent once
PLock(t) ==
    /\ ~panicked
    /\ cl.phase[t] = "idle"
    /\ cl' = [cl EXCEPT !.phase[t] = "requested"]
    /\ queue' = Enqueue(queue, t.address, <<Send(1, Lock(t, "Exclusive"))>>)
    /\ UNCHANGED <<nodes, actors, panicked, lastH, holding, preempts>>

\* actor.rs 90-104 with a client as the target: the holder of the lock writes
\* and releases with the basis {variable: granted iteration + 1}; a Propagate
\* is kept by the subscriber
RunPipeClient ==
    /\ ~panicked
    /\ queue # <<>>
    /\ Head(queue).target \in actors \cap ClientAddrs
    /\ LET msg == Head(queue).message
       IN CASE msg.type = "LockGranted" ->
                 \E v \in PipeValues :
                    /\ cl' = [cl EXCEPT !.phase[msg.txid] = "done"]
                    /\ queue' = Enqueue(Tail(queue), msg.txid.address,
                          <<Send(msg.address, Write(msg.txid, Integer(v))),
                            Send(msg.address,
                                 Release(msg.txid,
                                         (msg.address :> msg.node_kind.iteration + 1)))>>)
            [] msg.type = "Propagate" ->
                 /\ cl' = [cl EXCEPT !.received = Append(@, msg)]
                 /\ queue' = Tail(queue)
            [] OTHER -> cl' = cl /\ queue' = Tail(queue)
    /\ UNCHANGED <<nodes, actors, panicked, lastH, holding, preempts>>

InitPipe ==
    /\ nodes = InitPipeNodes
    /\ actors = NodeAddrs \cup ClientAddrs
    /\ queue = <<>>
    /\ panicked = FALSE
    /\ cl = [phase |-> [t \in Txs |-> "idle"], received |-> <<>>]
    /\ lastH = NoHistory
    /\ holding = [n \in NodeAddrs |-> {}]
    /\ preempts = [n \in NodeAddrs |-> [t \in Txs |-> 0]]

NextPipe ==
    \/ \E t \in Txs : PLock(t)
    \/ RunNode
    \/ RunPipeClient

SpecPipe == InitPipe /\ [][NextPipe]_vars

\* the variable holds Integer 2 written with the basis {variable: 1}
WrittenTwo == nodes[1].value = StampedValue(Integer(2), (1 :> 1))

\* C11 - Definition over one variable: once the write of Integer 2, released
\* with the basis {v: 1}, is the variable's value and every message has been
\* handled, the subscribed client has received from the definition a Propagate
\* of Integer 2 with the basis {v: 1}.
DefinitionDelivers ==
    (Quiescent /\ WrittenTwo) =>
        Propagate(DefNode, StampedValue(Integer(2), (1 :> 1))) \in Range(cl.received)


---------------------------------------------------------------------------
(* The network node: node.rs, node/reactive.rs, node/held_locks.rs.  A     *)
(* node hosts several reactives, named by ReactiveId; a ReactiveAddress    *)
(* is a node's address with the id of one of its reactives.                *)

\* node.rs 29-33
ReactiveAddress(a, id) == [address |-> a, id |-> id]

\* a set as the key set of a map, for the operators that walk a map's keys
AsKeys(S) == [r \in S |-> Root]

\* prec_eq_wrt_roots, called at node.rs 453, 655 and node/reactive.rs 239: the
\* comparison of BasisStamp::prec_eq_wrt_ancestors over a set of roots
prec_eq_wrt_roots(a, b, roots) == prec_eq_wrt_ancestors(a, b, AsKeys(roots))

\* node/reactive.rs 19-38 Reactive::new; Definition::new of 133-141 gives every
\* address the expression reads an empty Input
NodeReactiveNew(config) ==
    [definition |-> IF config.tag = "Definition"
                    THEN [tag |-> "Some",
                          inputs |-> [a \in visit_reads(config.expr) |->
                                        [value |-> None, updates |-> <<>>]],
                          expr |-> config.expr]
                    ELSE None,
     value |-> IF config.tag = "Variable" THEN config.value ELSE None,
     read_by |-> EmptyBasis,
     changed |-> config.tag = "Variable"]

\* node/reactive.rs 61-63 Reactive::inputs
reactive_inputs(r) == IF r.definition.tag = "Some" THEN DOMAIN r.definition.inputs ELSE {}

\* node/reactive.rs 156-174 Definition::compute: None, a value, or the panic of
\* the unwrap on an input without a value
node_compute(def) ==
    With(eval(def.expr, def.inputs), LAMBDA e :
        IF e.tag # "Value" THEN [value |-> None, panic |-> FALSE]
        ELSE IF \E a \in DOMAIN def.inputs : def.inputs[a].value.tag = "None"
        THEN [value |-> None, panic |-> TRUE]
        ELSE [value |-> StampedValue(e.value,
                            merge_all({def.inputs[a].value.basis : a \in DOMAIN def.inputs})),
              panic |-> FALSE])

\* node/reactive.rs 143-154 Definition::reconfigure
node_def_reconfigure(def, expr) ==
    [tag |-> "Some",
     inputs |-> [a \in visit_reads(expr) |->
                    IF a \in DOMAIN def.inputs THEN def.inputs[a]
                    ELSE [value |-> None, updates |-> <<>>]],
     expr |-> expr]

\* node/reactive.rs 40-59 Reactive::reconfigure: the reactive after it, and
\* whether compute panicked
reactive_reconfigure(r, config) ==
    IF config.tag = "Variable"
    THEN [r |-> [r EXCEPT !.definition = None, !.value = config.value, !.changed = TRUE],
          panic |-> FALSE]
    ELSE With(IF r.definition.tag = "Some"
              THEN node_def_reconfigure(r.definition, config.expr)
              ELSE NodeReactiveNew(config).definition, LAMBDA d :
            [r |-> [r EXCEPT !.definition = d, !.value = node_compute(d).value,
                             !.changed = TRUE],
             panic |-> node_compute(d).panic])

\* node/reactive.rs 104-110 Reactive::write; the assert of line 105 panics on a
\* definition
reactive_write(r, value) ==
    [r |-> [r EXCEPT !.value = [value EXCEPT !.basis = merge_from(@, r.read_by)],
                     !.read_by = EmptyBasis,
                     !.changed = TRUE],
     panic |-> r.definition.tag = "Some"]

\* node.rs 55-67 Node::new
NodeNew ==
    [queued |-> <<>>, held |-> HeldNone, preempted |-> {},
     imports |-> <<>>, reactives |-> <<>>, iterations |-> <<>>, exports |-> <<>>,
     subscriptions |-> <<>>, roots |-> <<>>, topo |-> <<>>]

\* node/held_locks.rs 16-19 and 26-31 with the fields node.rs 167, 176, 203, 268 use
NodeSharedDefault == [reads |-> <<>>]
NodeExclusiveDefault ==
    [writes |-> <<>>, imports |-> <<>>, reactives |-> <<>>, exports |-> <<>>,
     prepared_iterations |-> <<>>]

\* node.rs 361-365 Node::preempt: the Preempt goes out unless the transaction
\* is in preempted already
node_preempt(acc, txid) ==
    IF txid \in acc.preempted THEN acc
    ELSE [acc EXCEPT !.preempted = @ \cup {txid},
                     !.sent = Append(@, Send(txid.address, Preempt(txid)))]

RECURSIVE node_preempt_younger(_, _, _)
\* node.rs 100-106: the shared holders from the youngest down to the first one
\* older than the queued exclusive request
node_preempt_younger(acc, order, txid) ==
    IF order = <<>> \/ TxLt(Head(order), txid) THEN acc
    ELSE node_preempt_younger(node_preempt(acc, Head(order)), Tail(order), txid)

\* node.rs 74-121: the match on held for one queued request; acc is
\* [held, preempted, granted, sent], go tells whether the loop goes on
node_grant_step(acc, txid, kind) ==
    CASE acc.held.tag = "None" ->
            [acc |-> [acc EXCEPT
                        !.held = IF kind = "Shared"
                                 THEN HeldShared((txid :> NodeSharedDefault))
                                 ELSE HeldExclusive(txid, NodeSharedDefault,
                                                    NodeExclusiveDefault),
                        !.granted = Append(@, txid)],
             go |-> TRUE]
      [] acc.held.tag = "Shared" ->
            IF kind = "Shared"
            THEN [acc |-> [acc EXCEPT !.held.shared = (txid :> NodeSharedDefault) @@ @,
                                      !.granted = Append(@, txid)],
                  go |-> TRUE]
            ELSE [acc |-> node_preempt_younger(acc, Descending(DOMAIN acc.held.shared),
                                               txid),
                  go |-> FALSE]
      [] acc.held.tag = "Exclusive" ->
            [acc |-> IF TxLt(txid, acc.held.txid) THEN node_preempt(acc, txid) ELSE acc,
             go |-> FALSE]

RECURSIVE node_grant_scan(_, _, _)
\* node.rs 73-125: the loop over queued, oldest first
node_grant_scan(acc, queued, todo) ==
    IF todo = <<>> THEN acc
    ELSE With(node_grant_step(acc, Head(todo), queued[Head(todo)]), LAMBDA r :
            IF r.go THEN node_grant_scan(r.acc, queued, Tail(todo)) ELSE r.acc)

\* node.rs 70-137 Node::grant_locks: the node after it and the messages sent
node_grant_locks(st, me) ==
    With(node_grant_scan([held |-> st.held, preempted |-> st.preempted,
                          granted |-> <<>>, sent |-> <<>>],
                         st.queued, Ascending(DOMAIN st.queued)), LAMBDA r :
        [st |-> [st EXCEPT !.held = r.held, !.preempted = r.preempted,
                           !.queued = [t \in DOMAIN st.queued \ Range(r.granted) |->
                                          st.queued[t]]],
         sent |-> r.sent \o
                  [i \in 1 .. Len(r.granted) |->
                      Send(r.granted[i].address,
                           [type |-> "LockGranted", txid |-> r.granted[i],
                            address |-> me])]])


\* the outcome of a handler of the node: the node after it and what it sent,
\* or a panic
NodeOk(st, sent) == [st |-> st, sent |-> sent, panic |-> FALSE]
NodePanic(st) == [st |-> st, sent |-> <<>>, panic |-> TRUE]

\* node.rs 478-486 Message::Lock
node_lock(st, me, msg) ==
    IF msg.txid \in DOMAIN st.queued THEN NodePanic(st)
    ELSE With(node_grant_locks([st EXCEPT !.queued = (msg.txid :> msg.kind) @@ @], me),
              LAMBDA g : NodeOk(g.st, g.sent))

\* node.rs 487-509 Message::Abort
node_abort(st, me, msg) ==
    IF shared(st.held, msg.txid).tag = "None" THEN NodePanic(st)
    ELSE With(node_grant_locks(
                [st EXCEPT !.held = IF st.held.tag = "Shared"
                                    THEN without_shared(st.held, msg.txid)
                                    ELSE HeldNone], me),
              LAMBDA g : NodeOk(g.st, g.sent))

RECURSIVE prepare_iterations(_, _, _, _, _)
\* node.rs 529-542: along topo, the next iteration of every written reactive and
\* of every reactive with a local input that has one
prepare_iterations(st, me, writes, topo, prepared) ==
    IF topo = <<>> THEN [prepared |-> prepared, panic |-> FALSE]
    ELSE IF \/ Head(topo) \in DOMAIN writes
            \/ \E input \in reactive_inputs(st.reactives[Head(topo)]) :
                  input.address = me /\ input.id \in DOMAIN prepared
    THEN IF Head(topo) \notin DOMAIN st.iterations
         THEN [prepared |-> prepared, panic |-> TRUE]
         ELSE prepare_iterations(st, me, writes, Tail(topo),
                                 (Head(topo) :> st.iterations[Head(topo)] + 1) @@ prepared)
    ELSE prepare_iterations(st, me, writes, Tail(topo), prepared)

\* node.rs 547-568: the prepared iterations of the reactives that are exported
\* once the transaction has committed
exported_iterations(st, me, ex, prepared) ==
    With({id \in DOMAIN prepared :
            IF id \in DOMAIN ex.exports THEN ex.exports[id] # {}
            ELSE id \in DOMAIN st.exports}, LAMBDA ids :
        [a \in {ReactiveAddress(me, id) : id \in ids} |-> prepared[a.id]])

\* node.rs 510-582 Message::PrepareCommit
node_prepare_commit(st, me, msg) ==
    IF shared(st.held, msg.txid).tag = "None" THEN NodePanic(st)
    ELSE With(merge_all({shared(st.held, msg.txid).state.reads[id].complete :
                            id \in DOMAIN shared(st.held, msg.txid).state.reads}),
         LAMBDA basis :
            IF exclusive(st.held, msg.txid).tag = "None"
            THEN NodeOk(st, <<Send(msg.txid.address,
                                  [type |-> "CommitPrepared", txid |-> msg.txid,
                                   address |-> me, basis |-> basis])>>)
            ELSE With(prepare_iterations(st, me, st.held.exclusive.writes, st.topo,
                                         st.held.exclusive.prepared_iterations),
                 LAMBDA p :
                    IF p.panic THEN NodePanic(st)
                    ELSE NodeOk([st EXCEPT !.held.exclusive.prepared_iterations =
                                                p.prepared],
                                <<Send(msg.txid.address,
                                       [type |-> "CommitPrepared", txid |-> msg.txid,
                                        address |-> me,
                                        basis |-> exported_iterations(st, me,
                                                     st.held.exclusive, p.prepared)
                                                  @@ basis])>>)))

\* node.rs 642-647: the read a holder may start: none yet on this reactive, or
\* a completed one with nothing pending
read_free(reads, id) ==
    id \notin DOMAIN reads
    \/ ~(is_empty(reads[id].complete) \/ ~is_empty(reads[id].pending))

\* node.rs 654-674: the read is answered at once when the value covers the
\* basis asked for, and is left pending otherwise
node_read_answer(st, me, msg, state, rd) ==
    IF st.reactives[msg.reactive].value.tag = "Some"
       /\ prec_eq_wrt_roots(msg.basis, st.reactives[msg.reactive].value.basis,
                            st.roots[msg.reactive])
    THEN NodeOk([st EXCEPT !.held = set_shared(st.held, msg.txid,
                    [state EXCEPT !.reads = (msg.reactive :>
                        [rd EXCEPT !.complete =
                            merge_from(@, st.reactives[msg.reactive].value.basis)]) @@ @])],
                <<Send(msg.txid.address,
                       [type |-> "ReadResult", txid |-> msg.txid,
                        reactive |-> ReactiveAddress(me, msg.reactive),
                        value |-> st.reactives[msg.reactive].value])>>)
    ELSE NodeOk([st EXCEPT !.held = set_shared(st.held, msg.txid,
                    [state EXCEPT !.reads = (msg.reactive :>
                        [rd EXCEPT !.pending = msg.basis]) @@ @])], <<>>)

\* node.rs 627-675 Message::Read
node_read(st, me, msg) ==
    IF shared(st.held, msg.txid).tag = "None" THEN NodePanic(st)
    ELSE IF msg.reactive \notin DOMAIN st.reactives THEN NodePanic(st)
    ELSE IF ~read_free(shared(st.held, msg.txid).state.reads, msg.reactive)
    THEN NodePanic(st)
    ELSE IF st.reactives[msg.reactive].value.tag = "Some"
            /\ msg.reactive \notin DOMAIN st.roots
    THEN NodePanic(st)
    ELSE node_read_answer(st, me, msg, shared(st.held, msg.txid).state,
            IF msg.reactive \in DOMAIN shared(st.held, msg.txid).state.reads
            THEN shared(st.held, msg.txid).state.reads[msg.reactive]
            ELSE [pending |-> EmptyBasis, complete |-> EmptyBasis])

\* node.rs 676-687 Message::Write
node_write(st, me, msg) ==
    IF exclusive(st.held, msg.txid).tag = "None" THEN NodePanic(st)
    ELSE IF msg.reactive \notin DOMAIN st.reactives THEN NodePanic(st)
    ELSE NodeOk([st EXCEPT !.held.exclusive.writes = (msg.reactive :> msg.value) @@ @],
                <<>>)

\* node.rs 688-699 Message::ReadConfiguration
node_read_configuration(st, me, msg) ==
    IF exclusive(st.held, msg.txid).tag = "None" THEN NodePanic(st)
    ELSE NodeOk(st, <<Send(msg.txid.address,
                          [type |-> "ReadConfigurationResult", imports |-> st.imports])>>)

\* node.rs 700-713 Message::Configure
node_configure(st, me, msg) ==
    IF exclusive(st.held, msg.txid).tag = "None" THEN NodePanic(st)
    ELSE NodeOk([st EXCEPT !.held.exclusive.imports = msg.imports @@ @,
                           !.held.exclusive.reactives = msg.reactives @@ @,
                           !.held.exclusive.exports = msg.exports @@ @], <<>>)


\* the elements of S as the sequence pri yields them; pri stands for the order
\* in which the node's HashMaps and HashSets yield the reactive ids
InOrder(S, pri) == SelectSeq(pri, LAMBDA x : x \in S)

\* node.rs 146-150: the reads the transaction completed are merged into read_by;
\* acc is [st, panic]
finish_reads(acc, reads, basis) ==
    With({id \in DOMAIN reads : ~is_empty(reads[id].complete)}, LAMBDA done :
        IF \E id \in done : id \notin DOMAIN acc.st.reactives
        THEN [acc EXCEPT !.panic = TRUE]
        ELSE [acc EXCEPT !.st.reactives =
                [id \in DOMAIN @ |->
                    IF id \in done
                    THEN [@[id] EXCEPT !.read_by = merge_from(@, basis)] ELSE @[id]]])

RECURSIVE apply_writes(_, _, _, _)
\* node.rs 158-174: every written reactive takes its value, stamped with the
\* commit basis and the prepared iterations of the writes applied so far;
\* acc is [st, basis, panic]
apply_writes(acc, me, ex, todo) ==
    IF todo = <<>> \/ acc.panic THEN acc
    ELSE IF Head(todo) \notin DOMAIN ex.prepared_iterations
            \/ Head(todo) \notin DOMAIN acc.st.reactives
    THEN [acc EXCEPT !.panic = TRUE]
    ELSE With((ReactiveAddress(me, Head(todo)) :> ex.prepared_iterations[Head(todo)])
              @@ acc.basis, LAMBDA basis :
         With(reactive_write(acc.st.reactives[Head(todo)],
                             StampedValue(ex.writes[Head(todo)], basis)), LAMBDA w :
            apply_writes([st |-> [acc.st EXCEPT !.reactives[Head(todo)] = w.r],
                          basis |-> basis, panic |-> w.panic],
                         me, ex, Tail(todo))))

\* node.rs 176-199: the imports are added, given new roots or removed; a removed
\* import has to have all its importers among the reactives being configured
apply_imports(st, ex) ==
    [st |-> [st EXCEPT !.imports =
                [a \in (DOMAIN st.imports \cup DOMAIN ex.imports)
                        \ {x \in DOMAIN ex.imports : ex.imports[x].tag = "None"} |->
                    IF a \notin DOMAIN ex.imports THEN st.imports[a]
                    ELSE [roots |-> ex.imports[a].roots,
                          importers |-> IF a \in DOMAIN st.imports
                                        THEN st.imports[a].importers ELSE {}]]],
     panic |-> \E a \in DOMAIN ex.imports \cap DOMAIN st.imports :
                  /\ ex.imports[a].tag = "None"
                  /\ ~(st.imports[a].importers \subseteq DOMAIN ex.reactives)]

\* node.rs 217-235: the reactive id becomes a subscriber of every input it did
\* not have before; a local input has to be in subscriptions, a remote one in
\* imports
subscribe_inputs(st, me, id, added) ==
    IF \E i \in added : IF i.address = me THEN i.id \notin DOMAIN st.subscriptions
                                          ELSE i \notin DOMAIN st.imports
    THEN [st |-> st, panic |-> TRUE]
    ELSE [st |-> [st EXCEPT
                    !.subscriptions = [k \in DOMAIN @ |->
                        IF ReactiveAddress(me, k) \in added THEN @[k] \cup {id} ELSE @[k]],
                    !.imports = [a \in DOMAIN @ |->
                        IF a \in added THEN [@[a] EXCEPT !.importers = @ \cup {id}]
                        ELSE @[a]]],
          panic |-> FALSE]

\* node.rs 237-247: the inputs the reactive no longer has lose it as a
\* subscriber; an import without importers is dropped
unsubscribe_inputs(st, me, id, removed) ==
    IF \E i \in removed : IF i.address = me THEN i.id \notin DOMAIN st.subscriptions
                                            ELSE i \notin DOMAIN st.imports
    THEN [st |-> st, panic |-> TRUE]
    ELSE [st |-> [st EXCEPT
                    !.subscriptions = [k \in DOMAIN @ |->
                        IF ReactiveAddress(me, k) \in removed THEN @[k] \ {id} ELSE @[k]],
                    !.imports = [a \in {x \in DOMAIN @ :
                                          x \in removed => st.imports[x].importers \ {id} # {}} |->
                        IF a \in removed THEN [@[a] EXCEPT !.importers = @ \ {id}]
                        ELSE @[a]]],
          panic |-> FALSE]

\* node.rs 204-249: one configured reactive is created or reconfigured and its
\* subscriptions follow its inputs
configure_reactive(st, me, id, config) ==
    With(IF id \in DOMAIN st.reactives
         THEN reactive_reconfigure(st.reactives[id], config)
         ELSE [r |-> NodeReactiveNew(config), panic |-> FALSE], LAMBDA c :
    With(IF id \in DOMAIN st.reactives THEN reactive_inputs(st.reactives[id]) ELSE {},
         LAMBDA prior :
        IF c.panic THEN [st |-> st, panic |-> TRUE]
        ELSE With(subscribe_inputs(
                    [st EXCEPT !.iterations = IF id \in DOMAIN @ THEN @ ELSE (id :> 0) @@ @,
                               !.reactives = (id :> c.r) @@ @],
                    me, id, reactive_inputs(c.r) \ prior), LAMBDA s :
                IF s.panic THEN s
                ELSE unsubscribe_inputs(s.st, me, id, prior \ reactive_inputs(c.r)))))

\* node.rs 250-260: a reactive configured away leaves the maps, and its inputs
\* lose it as a subscriber where they still exist
remove_reactive(st, me, id) ==
    IF id \notin DOMAIN st.reactives THEN [st |-> st, panic |-> FALSE]
    ELSE [st |-> [st EXCEPT
                    !.reactives = [k \in DOMAIN @ \ {id} |-> @[k]],
                    !.iterations = [k \in DOMAIN @ \ {id} |-> @[k]],
                    !.subscriptions = [k \in DOMAIN @ |->
                        IF ReactiveAddress(me, k) \in reactive_inputs(st.reactives[id])
                        THEN @[k] \ {id} ELSE @[k]],
                    !.imports = [a \in DOMAIN @ |->
                        IF a \in reactive_inputs(st.reactives[id])
                        THEN [@[a] EXCEPT !.importers = @ \ {id}] ELSE @[a]]],
          panic |-> FALSE]

RECURSIVE apply_reactives(_, _, _, _)
\* node.rs 203-261: the loop over the configured reactives, in the map's order;
\* acc is [st, panic]
apply_reactives(acc, me, configs, todo) ==
    IF todo = <<>> \/ acc.panic THEN acc
    ELSE apply_reactives(
            IF configs[Head(todo)].tag = "None"
            THEN remove_reactive(acc.st, me, Head(todo))
            ELSE configure_reactive(acc.st, me, Head(todo), configs[Head(todo)]),
            me, configs, Tail(todo))


RECURSIVE topo_dfs(_, _, _, _)
RECURSIVE topo_dfs_subs(_, _, _, _)
\* node.rs 302-324 Node::topo_dfs; acc is [topo, visited, panic], where panic
\* stands for the index of line 316 on an id that has no subscriptions entry
\* and for the Cyclical error recompute_topo turns into a panic
topo_dfs(subscriptions, acc, id, pri) ==
    IF acc.panic THEN acc
    ELSE IF id \in DOMAIN acc.visited
    THEN [acc EXCEPT !.panic = ~acc.visited[id]]
    ELSE IF id \notin DOMAIN subscriptions THEN [acc EXCEPT !.panic = TRUE]
    ELSE With(topo_dfs_subs(subscriptions,
                            [acc EXCEPT !.visited = (id :> FALSE) @@ @],
                            InOrder(subscriptions[id], pri), pri), LAMBDA a :
            IF a.panic THEN a
            ELSE [a EXCEPT !.topo = <<id>> \o @, !.visited = (id :> TRUE) @@ @])

\* node.rs 316-318, and 296-299 for the keys of reactives: one topo_dfs after
\* the other
topo_dfs_subs(subscriptions, acc, todo, pri) ==
    IF todo = <<>> \/ acc.panic THEN acc
    ELSE topo_dfs_subs(subscriptions, topo_dfs(subscriptions, acc, Head(todo), pri),
                       Tail(todo), pri)

\* node.rs 293-300 Node::recompute_topo
recompute_topo(st, pri) ==
    With(topo_dfs_subs(st.subscriptions,
                       [topo |-> <<>>, visited |-> <<>>, panic |-> FALSE],
                       InOrder(DOMAIN st.reactives, pri), pri), LAMBDA a :
        [st |-> [st EXCEPT !.topo = a.topo], panic |-> a.panic])

\* node.rs 378-384: the roots of an input as the node knows them, None when it
\* does not
input_roots(st, me, a) ==
    IF a.address = me
    THEN IF a.id \in DOMAIN st.roots THEN [tag |-> "Some", roots |-> st.roots[a.id]]
         ELSE None
    ELSE IF a \in DOMAIN st.imports THEN [tag |-> "Some", roots |-> st.imports[a].roots]
         ELSE None

\* node.rs 275-279 and 353-357: the roots of an export are the reactive's roots
\* on other nodes
export_roots(roots, me) == {r \in roots : r.address # me}

RECURSIVE roots_along(_, _, _, _)
\* node.rs 328-350: the roots of every reactive along topo, from the roots of
\* its inputs; acc is [roots, panic]
roots_along(st, me, acc, todo) ==
    IF todo = <<>> \/ acc.panic THEN acc
    ELSE IF Head(todo) \notin DOMAIN st.reactives THEN [acc EXCEPT !.panic = TRUE]
    ELSE With(reactive_inputs(st.reactives[Head(todo)]), LAMBDA inputs :
            IF \E i \in inputs : input_roots([st EXCEPT !.roots = acc.roots], me, i).tag = "None"
            THEN [acc EXCEPT !.panic = TRUE]
            ELSE roots_along(st, me,
                    [acc EXCEPT !.roots =
                        (Head(todo) :>
                            IF inputs = {} THEN {ReactiveAddress(me, Head(todo))}
                            ELSE UNION {input_roots([st EXCEPT !.roots = acc.roots], me, i).roots :
                                          i \in inputs}) @@ @],
                    Tail(todo)))

\* node.rs 326-359 Node::recompute_roots
recompute_roots(st, me) ==
    With(roots_along(st, me, [roots |-> <<>>, panic |-> FALSE], st.topo), LAMBDA a :
        IF a.panic \/ \E id \in DOMAIN st.exports : id \notin DOMAIN a.roots
        THEN [st |-> st, panic |-> TRUE]
        ELSE [st |-> [st EXCEPT !.roots = a.roots,
                                !.exports = [id \in DOMAIN @ |->
                                    [@[id] EXCEPT !.roots = export_roots(a.roots[id], me)]]],
              panic |-> FALSE])

\* node.rs 268-284: the exports the transaction configured replace the node's
apply_exports(st, me, exports) ==
    IF \E id \in DOMAIN exports : exports[id] # {} /\ id \notin DOMAIN st.roots
    THEN [st |-> st, panic |-> TRUE]
    ELSE [st |-> [st EXCEPT !.exports =
                    [id \in (DOMAIN st.exports \cup DOMAIN exports)
                            \ {x \in DOMAIN exports : exports[x] = {}} |->
                        IF id \in DOMAIN exports
                        THEN [roots |-> export_roots(st.roots[id], me),
                              importers |-> exports[id]]
                        ELSE st.exports[id]]],
          panic |-> FALSE]

\* node/reactive.rs 73-94 Reactive::next_value: the reactive after it, the value
\* it yields and whether the search panicked (an input without roots, node/
\* reactive.rs 199-201, or an expression left unevaluated)
next_value(st, me, r, seeds, order) ==
    IF r.changed /\ r.value.tag = "Some"
    THEN [r |-> [r EXCEPT !.changed = FALSE], value |-> r.value, panic |-> FALSE]
    ELSE IF r.definition.tag = "None"
    THEN [r |-> [r EXCEPT !.changed = FALSE], value |-> None, panic |-> FALSE]
    ELSE IF \E a \in DOMAIN r.definition.inputs : input_roots(st, me, a).tag = "None"
    THEN [r |-> r, value |-> None, panic |-> TRUE]
    ELSE With(find_and_apply_batch(
                [r.definition EXCEPT !.inputs =
                    [a \in DOMAIN @ |->
                        [value |-> @[a].value, updates |-> @[a].updates,
                         ancestors |-> AsKeys(input_roots(st, me, a).roots)]]],
                seeds, order), LAMBDA f :
            [r |-> [r EXCEPT !.changed = FALSE,
                             !.definition.inputs =
                                [a \in DOMAIN @ |->
                                    [value |-> f.def.inputs[a].value,
                                     updates |-> f.def.inputs[a].updates]],
                             !.value = IF f.value.tag = "Some" THEN f.value ELSE @],
             value |-> f.value, panic |-> f.panic])

\* node.rs 393-401: the value is queued at every local subscriber, which has to
\* be a definition with the reactive among its inputs
queue_at_subscribers(st, me, id, value) ==
    IF \/ id \notin DOMAIN st.subscriptions
       \/ \E sub \in st.subscriptions[id] :
            \/ sub \notin DOMAIN st.reactives
            \/ st.reactives[sub].definition.tag = "None"
            \/ ReactiveAddress(me, id) \notin DOMAIN st.reactives[sub].definition.inputs
    THEN [st |-> st, panic |-> TRUE]
    ELSE [st |-> [st EXCEPT !.reactives =
                    [k \in DOMAIN @ |->
                        IF k \in st.subscriptions[id]
                        THEN [@[k] EXCEPT !.definition =
                                add_update(@, ReactiveAddress(me, id), value)]
                        ELSE @[k]]],
          panic |-> FALSE]

\* node.rs 403-415: the basis without the roots that are local and not exported
without_local_only_bases(st, me, value) ==
    [value EXCEPT !.basis =
        [a \in {x \in DOMAIN value.basis : x.address # me \/ x.id \in DOMAIN st.exports} |->
            value.basis[a]]]

\* node.rs 417-434: one Propagate to every importer of the export
export_sends(st, me, id, value) ==
    IF id \notin DOMAIN st.exports THEN <<>>
    ELSE [i \in 1 .. Cardinality(st.exports[id].importers) |->
            Send(Ascending(st.exports[id].importers)[i],
                 Propagate(ReactiveAddress(me, id), without_local_only_bases(st, me, value)))]

RECURSIVE AddressesInOrder(_, _)
\* the reactive addresses of S by their ids in the order pri, and by node
\* address among equal ids
AddressesInOrder(S, pri) ==
    IF pri = <<>> THEN <<>>
    ELSE With(Ascending({a.address : a \in {x \in S : x.id = Head(pri)}}), LAMBDA nodes_ :
            [i \in DOMAIN nodes_ |-> ReactiveAddress(nodes_[i], Head(pri))])
         \o AddressesInOrder(S, Tail(pri))

RECURSIVE propagate_values(_, _, _, _)
\* node.rs 386-435: the values one reactive yields, one after the other; acc is
\* [st, sent, panic]
propagate_values(acc, me, id, pri) ==
    IF acc.panic THEN acc
    ELSE IF id \notin DOMAIN acc.st.reactives THEN [acc EXCEPT !.panic = TRUE]
    ELSE With(next_value(acc.st, me, acc.st.reactives[id],
                         AddressesInOrder(reactive_inputs(acc.st.reactives[id]), pri),
                         AddressesInOrder(reactive_inputs(acc.st.reactives[id]), pri)),
              LAMBDA nv :
            IF nv.panic THEN [acc EXCEPT !.panic = TRUE]
            ELSE IF nv.value.tag = "None"
            THEN [acc EXCEPT !.st.reactives[id] = nv.r]
            ELSE With(queue_at_subscribers([acc.st EXCEPT !.reactives[id] = nv.r],
                                           me, id, nv.value), LAMBDA q :
                    propagate_values(
                        [st |-> q.st,
                         sent |-> acc.sent \o export_sends(q.st, me, id, nv.value),
                         panic |-> q.panic],
                        me, id, pri)))

RECURSIVE propagate_along(_, _, _, _, _, _)
\* node.rs 368-436: along topo, from the first modified reactive on
propagate_along(acc, me, modified, todo, found, pri) ==
    IF todo = <<>> \/ acc.panic THEN acc
    ELSE IF ~found /\ Head(todo) \notin modified
    THEN propagate_along(acc, me, modified, Tail(todo), FALSE, pri)
    ELSE propagate_along(propagate_values(acc, me, Head(todo), pri),
                         me, modified, Tail(todo), TRUE, pri)


\* node.rs 449-468: one read of one holder is answered if it is pending and the
\* reactive's value covers the basis it asked for; acc is [st, sent, panic]
grant_read(acc, me, txid, id) ==
    With(shared(acc.st.held, txid).state, LAMBDA state :
        IF ~(is_empty(state.reads[id].complete) \/ ~is_empty(state.reads[id].pending))
        THEN acc
        ELSE IF id \notin DOMAIN acc.st.reactives THEN [acc EXCEPT !.panic = TRUE]
        ELSE IF acc.st.reactives[id].value.tag = "None" THEN acc
        ELSE IF id \notin DOMAIN acc.st.roots THEN [acc EXCEPT !.panic = TRUE]
        ELSE IF ~prec_eq_wrt_roots(state.reads[id].pending,
                                   acc.st.reactives[id].value.basis, acc.st.roots[id])
        THEN acc
        ELSE [acc EXCEPT
                !.st.held = set_shared(@, txid,
                    [state EXCEPT !.reads[id].complete =
                        merge_from(@, acc.st.reactives[id].value.basis)]),
                !.sent = Append(@, Send(txid.address,
                            [type |-> "ReadResult", txid |-> txid,
                             reactive |-> ReactiveAddress(me, id),
                             value |-> acc.st.reactives[id].value]))])

RECURSIVE grant_reads_of(_, _, _, _)
\* node.rs 443-470: the reads of one holder
grant_reads_of(acc, me, txid, todo) ==
    IF todo = <<>> \/ acc.panic THEN acc
    ELSE grant_reads_of(grant_read(acc, me, txid, Head(todo)), me, txid, Tail(todo))

RECURSIVE grant_reads(_, _, _, _)
\* node.rs 441-472 Node::grant_reads over the holders visit_shared yields
\* (node/held_locks.rs 89-97)
grant_reads(acc, me, holders, pri) ==
    IF holders = <<>> \/ acc.panic THEN acc
    ELSE grant_reads(
            grant_reads_of(acc, me, Head(holders),
                InOrder(DOMAIN shared(acc.st.held, Head(holders)).state.reads, pri)),
            me, Tail(holders), pri)

\* the transactions visit_shared visits
shared_holders(held) ==
    CASE held.tag = "Shared" -> Ascending(DOMAIN held.shared)
      [] held.tag = "Exclusive" -> <<held.txid>>
      [] OTHER -> <<>>

\* node.rs 367-439 Node::propagate
node_propagate(st, me, modified, pri) ==
    With(propagate_along([st |-> st, sent |-> <<>>, panic |-> FALSE],
                         me, modified, st.topo, FALSE, pri), LAMBDA a :
        grant_reads(a, me, shared_holders(a.st.held), pri))

\* node.rs 263-266: topo and roots are recomputed when the transaction
\* configured reactives
recompute(st, me, pri) ==
    With(recompute_topo(st, pri), LAMBDA t :
        IF t.panic THEN t ELSE recompute_roots(t.st, me))

\* node.rs 139-291 Node::commit: the node after it, what it sent, whether it
\* panicked
node_commit(st, me, basis, shared_state, ex, pri) ==
    With(finish_reads([st |-> st, panic |-> FALSE], shared_state.reads, basis), LAMBDA a1 :
    With(apply_writes([st |-> a1.st, basis |-> basis, panic |-> a1.panic], me, ex,
                      InOrder(DOMAIN ex.writes, pri)), LAMBDA a2 :
    With(IF a2.panic THEN [st |-> a2.st, panic |-> TRUE]
         ELSE apply_imports(a2.st, ex), LAMBDA a3 :
    With(apply_reactives(a3, me, ex.reactives, InOrder(DOMAIN ex.reactives, pri)),
         LAMBDA a4 :
    With(IF a4.panic \/ DOMAIN ex.reactives = {} THEN a4
         ELSE recompute(a4.st, me, pri), LAMBDA a5 :
    With(IF a5.panic THEN a5 ELSE apply_exports(a5.st, me, ex.exports), LAMBDA a6 :
        IF a6.panic THEN NodePanic(st)
        ELSE With(node_propagate(
                    [a6.st EXCEPT !.iterations = ex.prepared_iterations @@ @], me,
                    DOMAIN ex.writes
                    \cup {id \in DOMAIN ex.reactives : ex.reactives[id].tag # "None"},
                    pri), LAMBDA p :
                IF p.panic THEN NodePanic(st) ELSE NodeOk(p.st, p.sent))))))))

\* node.rs 583-626 Message::Commit
node_handle_commit(st, me, msg, pri) ==
    IF shared(st.held, msg.txid).tag = "None" THEN NodePanic(st)
    ELSE With(node_commit(
                [st EXCEPT !.held = IF st.held.tag = "Shared"
                                    THEN without_shared(st.held, msg.txid)
                                    ELSE HeldNone],
                me, msg.basis, shared(st.held, msg.txid).state,
                IF st.held.tag = "Exclusive" THEN st.held.exclusive
                ELSE NodeExclusiveDefault, pri), LAMBDA c :
            IF c.panic THEN NodePanic(st)
            ELSE With(node_grant_locks(c.st, me), LAMBDA g :
                    NodeOk(g.st, c.sent \o g.sent)))

\* node.rs 714-727 Message::Propagate
node_handle_propagate(st, me, msg, pri) ==
    IF msg.sender \notin DOMAIN st.imports THEN NodeOk(st, <<>>)
    ELSE With(st.imports[msg.sender].importers, LAMBDA importers :
            IF \E id \in importers :
                  \/ id \notin DOMAIN st.reactives
                  \/ st.reactives[id].definition.tag = "None"
                  \/ msg.sender \notin DOMAIN st.reactives[id].definition.inputs
            THEN NodePanic(st)
            ELSE With(node_propagate(
                        [st EXCEPT !.reactives =
                            [k \in DOMAIN @ |->
                                IF k \in importers
                                THEN [@[k] EXCEPT !.definition =
                                        add_update(@, msg.sender, msg.value)]
                                ELSE @[k]]],
                        me, importers, pri), LAMBDA p :
                    IF p.panic THEN NodePanic(st) ELSE NodeOk(p.st, p.sent)))

\* node.rs 476-730 Node::handle; every other message reaches the todo!() of
\* line 728
NodeHandle(st, me, msg, pri) ==
    CASE msg.type = "Lock" -> node_lock(st, me, msg)
      [] msg.type = "Abort" -> node_abort(st, me, msg)
      [] msg.type = "PrepareCommit" -> node_prepare_commit(st, me, msg)
      [] msg.type = "Commit" -> node_handle_commit(st, me, msg, pri)
      [] msg.type = "Read" -> node_read(st, me, msg)
      [] msg.type = "Write" -> node_write(st, me, msg)
      [] msg.type = "ReadConfiguration" -> node_read_configuration(st, me, msg)
      [] msg.type = "Configure" -> node_configure(st, me, msg)
      [] msg.type = "Propagate" -> node_handle_propagate(st, me, msg, pri)
      [] OTHER -> NodePanic(st)


---------------------------------------------------------------------------
(* The scenario of main.rs: the Scenario actor spawns two nodes, runs a    *)
(* configuration transaction on both and shifts to Stage2, which writes    *)
(* to reactive 0 of the first node.  cl is the actor: its stage and the    *)
(* fields of Scenario or Stage2.  The two readings of the clock            *)
(* (message.rs 231-248) are the inputs.                                    *)

\* the largest reading of the clock
MaxClock == 6

\* actor.rs 106-122 System::spawn: the addresses in the order of the spawns of
\* main.rs 22 and 50-51
ScenarioAddr == 0
Node1 == 1
Node2 == 2
ScenarioNodes == {Node1, Node2}

\* node.rs ReactiveId: the ids the scenario uses
ReactiveIds == {0, 1}

\* the messages node.rs and main.rs build
Configure(t, imports, reactives, exports) ==
    [type |-> "Configure", txid |-> t, imports |-> imports, reactives |-> reactives,
     exports |-> exports]
PrepareCommit(t) == [type |-> "PrepareCommit", txid |-> t]
Commit(t, b) == [type |-> "Commit", txid |-> t, basis |-> b]
NodeWrite(t, r, v) == [type |-> "Write", txid |-> t, reactive |-> r, value |-> v]
NodeDefinition(e) == [tag |-> "Definition", expr |-> e]
ImportConfiguration(roots) == [tag |-> "Some", roots |-> roots]

\* main.rs 54-59 and 196-200: the two transactions of the scenario
ScenarioTx(priority, timestamp) ==
    [priority |-> priority, timestamp |-> timestamp, address |-> ScenarioAddr]

\* main.rs 98-124: the configuration of the first node: x := 0 as reactive 0,
\* y := Read(x) as reactive 1, exported to the second node
ConfigureNode1(t) ==
    Configure(t, <<>>,
              (0 :> ConfigVariable(StampedValue(Integer(0), EmptyBasis)))
              @@ (1 :> NodeDefinition(ExprRead(ReactiveAddress(Node1, 0)))),
              (1 :> {Node2}))

\* main.rs 127-154: the configuration of the second node: the import of y and
\* z := Read(y) as reactive 0
ConfigureNode2(t) ==
    Configure(t,
              (ReactiveAddress(Node1, 1) :>
                  ImportConfiguration({ReactiveAddress(Node1, 1)})),
              (0 :> NodeDefinition(ExprRead(ReactiveAddress(Node1, 1)))),
              <<>>)

\* the shift of main.rs 207-211: the actor at the address is Stage2 from the
\* next message on
shift(sc, t2) == [sc EXCEPT !.stage = "Stage2", !.txid = t2]

\* main.rs 88-216 Scenario::handle: the actor after it, what it sent, whether
\* it panicked
scenario_handle(sc, msg) ==
    CASE msg.type = "LockGranted" ->
            IF msg.txid # sc.txid THEN [sc |-> sc, sent |-> <<>>, panic |-> TRUE]
            ELSE [sc |-> sc,
                  sent |-> <<Send(msg.address,
                                  IF msg.address = Node1 THEN ConfigureNode1(sc.txid)
                                  ELSE ConfigureNode2(sc.txid)),
                             Send(msg.address, PrepareCommit(sc.txid))>>,
                  panic |-> FALSE]
      [] msg.type = "CommitPrepared" ->
            IF \/ msg.txid # sc.txid
               \/ msg.address \notin ScenarioNodes
               \/ msg.address = Node1 /\ sc.node1_prepared
               \/ msg.address = Node2 /\ sc.node2_prepared
            THEN [sc |-> sc, sent |-> <<>>, panic |-> TRUE]
            ELSE With([sc EXCEPT !.basis = merge_from(@, msg.basis),
                                 !.node1_prepared = @ \/ msg.address = Node1,
                                 !.node2_prepared = @ \/ msg.address = Node2], LAMBDA s :
                    IF s.node1_prepared /\ s.node2_prepared
                    THEN [sc |-> shift(s, ScenarioTx(Low, sc.clock)),
                          sent |-> <<Send(Node1, Commit(sc.txid, s.basis)),
                                     Send(Node2, Commit(sc.txid, s.basis)),
                                     Send(Node1, Lock(ScenarioTx(Low, sc.clock),
                                                      "Exclusive"))>>,
                          panic |-> FALSE]
                    ELSE [sc |-> s, sent |-> <<>>, panic |-> FALSE])
      [] OTHER -> [sc |-> sc, sent |-> <<>>, panic |-> TRUE]

\* main.rs 219-261 Stage2::handle
stage2_handle(sc, msg) ==
    CASE msg.type = "LockGranted" ->
            IF msg.address # Node1 \/ msg.txid # sc.txid
            THEN [sc |-> sc, sent |-> <<>>, panic |-> TRUE]
            ELSE [sc |-> sc,
                  sent |-> <<Send(msg.address, NodeWrite(sc.txid, 0, Integer(2))),
                             Send(msg.address, PrepareCommit(sc.txid))>>,
                  panic |-> FALSE]
      [] msg.type = "CommitPrepared" ->
            IF msg.address # Node1 \/ msg.txid # sc.txid
            THEN [sc |-> sc, sent |-> <<>>, panic |-> TRUE]
            ELSE [sc |-> sc, sent |-> <<Send(msg.address, Commit(sc.txid, msg.basis))>>,
                  panic |-> FALSE]
      [] OTHER -> [sc |-> sc, sent |-> <<>>, panic |-> TRUE]

\* actor.rs 90-104 with the scenario's actor as the target
RunScenario ==
    /\ ~panicked
    /\ queue # <<>>
    /\ Head(queue).target = ScenarioAddr
    /\ \E r \in {IF cl.stage = "Scenario" THEN scenario_handle(cl, Head(queue).message)
                 ELSE stage2_handle(cl, Head(queue).message)} :
          /\ cl' = r.sc
          /\ panicked' = r.panic
          /\ queue' = Enqueue(Tail(queue), ScenarioAddr, r.sent)
    /\ UNCHANGED <<nodes, actors, lastH, holding, preempts>>

\* actor.rs 90-104 with a node as the target: Node::handle runs to completion
RunScenarioNode ==
    /\ ~panicked
    /\ queue # <<>>
    /\ Head(queue).target \in ScenarioNodes
    /\ \E pri \in Orders(ReactiveIds) :
       \E r \in {NodeHandle(nodes[Head(queue).target], Head(queue).target,
                            Head(queue).message, pri)} :
          /\ nodes' = [nodes EXCEPT ![Head(queue).target] = r.st]
          /\ panicked' = r.panic
          /\ queue' = Enqueue(Tail(queue), Head(queue).target, r.sent)
          /\ lastH' = [tag |-> "Some", node |-> Head(queue).target,
                       msg |-> Head(queue).message,
                       before |-> nodes[Head(queue).target], after |-> r.st,
                       sent |-> r.sent, retired |-> FALSE, panic |-> r.panic]
    /\ UNCHANGED <<actors, cl, holding, preempts>>

\* main.rs 20-26 and 47-85: the system after the spawn of the scenario; the
\* first transaction has the clock's first reading, the second one a later one
InitScenario ==
    /\ nodes = [n \in ScenarioNodes |-> NodeNew]
    /\ actors = {ScenarioAddr} \cup ScenarioNodes
    /\ panicked = FALSE
    /\ \E t1 \in 1 .. MaxClock - 1 : \E t2 \in t1 + 1 .. MaxClock :
          /\ cl = [stage |-> "Scenario", txid |-> ScenarioTx(High, t1),
                   node1_prepared |-> FALSE, node2_prepared |-> FALSE,
                   basis |-> EmptyBasis, clock |-> t2]
          /\ queue = Enqueue(<<>>, ScenarioAddr,
                             <<Send(Node1, Lock(ScenarioTx(High, t1), "Exclusive")),
                               Send(Node2, Lock(ScenarioTx(High, t1), "Exclusive"))>>)
    /\ lastH = NoHistory
    /\ holding = [n \in ScenarioNodes |-> {}]
    /\ preempts = [n \in ScenarioNodes |-> <<>>]

NextScenario == RunScenario \/ RunScenarioNode

SpecScenario == InitScenario /\ [][NextScenario]_vars

\* the run is over: the queue is empty, or a handler panicked and took the
\* process with it
ScenarioOver == panicked \/ queue = <<>>

\* reactive 0 of the second node, z, holds Integer 2 with the basis {x: 1}
ZPublishedTwo ==
    /\ 0 \in DOMAIN nodes[Node2].reactives
    /\ nodes[Node2].reactives[0].value
         = StampedValue(Integer(2), (ReactiveAddress(Node1, 0) :> 1))

\* C12 - Cross-node pipeline: when the scenario of main.rs is over (x := 0 and
\* y := Read(x) configured on the first node with y exported, z := Read(y) on
\* the second, then x := 2 written by a second transaction), z on the second
\* node holds Integer 2 with the basis {x: 1}.
PipelinePublishes == ScenarioOver => ZPublishedTwo

\* the first node panicked in Commit of the configuration transaction
CommitPanicked ==
    /\ panicked
    /\ lastH.tag = "Some" /\ lastH.msg.type = "Commit" /\ lastH.node = Node1


---------------------------------------------------------------------------
(* The round trip of a write through one variable: the data driver on the  *)
(* first variable alone, whose subscribers are clients.                    *)

\* the first variable with the subscribers subs
RoundNodes(subs) == [InitNodes EXCEPT ![1].subscribers = subs]

InitRound ==
    /\ \E subs \in SUBSET ClientAddrs : nodes = RoundNodes(subs)
    /\ actors = NodeAddrs \cup ClientAddrs
    /\ queue = <<>>
    /\ panicked = FALSE
    /\ cl = [t \in DataTxs |-> [n \in DataNodes |-> "idle"]]
    /\ lastH = NoHistory
    /\ holding = [n \in NodeAddrs |-> {}]
    /\ preempts = [n \in NodeAddrs |-> [t \in Txs |-> 0]]

NextRound ==
    \/ \E t \in DataTxs, kind \in Kinds : DLock(t, 1, kind)
    \/ RunDataClient
    \/ RunNode

SpecRound == InitRound /\ [][NextRound]_vars

\* the last step was a variable applying the Release of the Exclusive holder
\* that had staged a Write
WriteReleased ==
    /\ ReleaseApplied
    /\ ReleasedWrite
    /\ lastH.before.definition.tag = "None"

\* how many messages to the address a the last step sent that are Propagate
PropagatesTo(a) ==
    Cardinality({i \in DOMAIN lastH.sent :
                    lastH.sent[i].target = a /\ lastH.sent[i].message.type = "Propagate"})

\* the last step sent every subscriber exactly one Propagate, and that one is
\* from the node itself with the written value and the basis b
PropagatedOnce(b) ==
    \A a \in lastH.before.subscribers :
        /\ PropagatesTo(a) = 1
        /\ Send(a, Propagate(lastH.node,
                     StampedValue(lastH.before.held.exclusive.value, b)))
              \in Range(lastH.sent)

\* C13 as stated - Single-variable round trip: a variable handling the Release
\* of the Exclusive holder that staged a Write sends every subscriber exactly
\* one Propagate from itself with the written value and the release basis.
RoundTripReleaseBasis == WriteReleased => PropagatedOnce(lastH.msg.basis)

\* C13 - Single-variable round trip: a variable handling the Release of the
\* Exclusive holder that staged a Write sends every subscriber exactly one
\* Propagate from itself with the written value and the release basis merged
\* with the reads stamp the node had accumulated.
RoundTripOverReads ==
    WriteReleased => PropagatedOnce(merge_from(lastH.msg.basis, lastH.before.reads))

\* a write is released on a variable with two subscribers whose reads stamp
\* holds a root the release basis lacks
RoundTripOverReadsSeen ==
    /\ WriteReleased
    /\ Cardinality(lastH.before.subscribers) = 2
    /\ DOMAIN lastH.before.reads \ DOMAIN lastH.msg.basis # {}


\* every input of the definition has an update queued, the first updates of
\* all inputs carry one and the same basis, which is not empty, and no input's
\* baseline has reached it: the updates one write of the shared root caused, a
\* consistent selection
ConsistentHeads(def) ==
    /\ \A a \in DOMAIN def.inputs :
          def.inputs[a].updates # <<>> /\ ~is_empty(Head(def.inputs[a].updates).basis)
    /\ \A a, b \in DOMAIN def.inputs :
          /\ Head(def.inputs[a].updates).basis = Head(def.inputs[b].updates).basis
          /\ def.inputs[a].value.tag = "Some" =>
                ~prec_eq_wrt_ancestors(Head(def.inputs[b].updates).basis,
                                       def.inputs[a].value.basis, def.inputs[a].ancestors)

\* C14 - Definition progress: when every input of a definition has queued the
\* updates one write of the shared root caused, a call of find_and_apply_batch
\* returns a value and takes at least one update off every input's queue.
BatchProgress ==
    (cl.out # NoHistory /\ ConsistentHeads(cl.out.from))
        => /\ cl.out.value.tag = "Some"
           /\ \A a \in DOMAIN cl.def.inputs :
                 Len(cl.def.inputs[a].updates) < Len(cl.out.from.inputs[a].updates)


---------------------------------------------------------------------------
(* The outputs of a definition under reconfiguration: the data driver on   *)
(* the definition node DefNode alone.                                      *)

InitReconf ==
    /\ nodes = InitMgrNodes
    /\ actors = NodeAddrs \cup ClientAddrs
    /\ queue = <<>>
    /\ panicked = FALSE
    /\ cl = [t \in DataTxs |-> [n \in {DefNode} |-> "idle"]]
    /\ lastH = NoHistory
    /\ holding = [n \in NodeAddrs |-> {}]
    /\ preempts = [n \in NodeAddrs |-> [t \in Txs |-> 0]]

NextReconf ==
    \/ \E t \in DataTxs, kind \in Kinds : DLock(t, DefNode, kind)
    \/ RunDataClient
    \/ RunNode

SpecReconf == InitReconf /\ [][NextReconf]_vars

\* the last step was a definition that holds an output applying the Release
\* of a reconfiguration that computes a value (reactive.rs 103-124): the
\* definition publishes its next output
OutputAfterOutput ==
    /\ ReleaseApplied
    /\ lastH.before.held.tag = "Exclusive"
    /\ lastH.before.held.exclusive.tag = "Update"
    /\ lastH.before.definition.tag = "Some"
    /\ lastH.before.value.tag = "Some"
    /\ lastH.after.definition.tag = "Some"
    /\ new_configuration(lastH.before,
                         lastH.before.held.exclusive.configuration).value.tag = "Some"

\* C15 - Published stamps never go backwards: when a definition publishes an
\* output after another, the earlier basis precedes or equals the later one on
\* the node's ancestor roots, and the later one is strictly larger on at least
\* one ancestor root.
OutputsAdvance ==
    OutputAfterOutput =>
        /\ prec_eq_wrt_ancestors(lastH.before.value.basis, lastH.after.value.basis,
                                 my_ancestors(lastH.after))
        /\ \E r \in DOMAIN my_ancestors(lastH.after) :
              /\ my_ancestors(lastH.after)[r].is_root
              /\ latest(lastH.before.value.basis, r) < latest(lastH.after.value.basis, r)


\* the Propagate messages the last step sent
Propagated ==
    {s.message : s \in {x \in Range(lastH.sent) : x.message.type = "Propagate"}}

\* C16 - The iteration covers the published stamps: the value a node holds has
\* at the node's own address at most the node's iteration, so has every
\* Propagate at the step that sends it, and no step lowers a node's iteration.
IterationCoversStamps ==
    /\ \A n \in NodeAddrs :
          nodes[n].value.tag = "Some"
              => latest(nodes[n].value.basis, n) <= nodes[n].iteration
    /\ (Stepped /\ lastH.node \in NodeAddrs)
          => /\ lastH.before.iteration <= lastH.after.iteration
             /\ \A p \in Propagated :
                   latest(p.value.basis, lastH.node) <= lastH.after.iteration

\* a node published, with a Propagate, a value stamped with a later iteration
\* of its own than the one it had
PublishedOwnIteration ==
    /\ Stepped
    /\ lastH.node \in NodeAddrs
    /\ \E p \in Propagated :
          /\ p.sender = lastH.node
          /\ latest(p.value.basis, lastH.node) > lastH.before.iteration


\* C17 - Iteration: no step lowers a node's iteration, a variable that handles
\* the Release of a holder that staged a Write ends with the iteration it had,
\* the one the holder's LockGranted reported, plus one, and the Release of a
\* holder that staged nothing leaves the iteration as it was.
IterationByOne ==
    /\ (Stepped /\ lastH.node \in NodeAddrs)
          => lastH.before.iteration <= lastH.after.iteration
    /\ WriteReleased => lastH.after.iteration = lastH.before.iteration + 1
    /\ (ReleaseApplied /\ lastH.before.held.tag = "Exclusive"
                       /\ lastH.before.held.exclusive.tag = "Unchanged")
          => lastH.after.iteration = lastH.before.iteration
    /\ (ReleaseApplied /\ lastH.before.held.tag = "Shared")
          => lastH.after.iteration = lastH.before.iteration

\* the locks of the committed transaction that carry a write
WrittenLocks ==
    {a \in DOMAIN lastH.tx.tx.state.locks : lastH.tx.tx.state.locks[a].wrote}

\* C18 - Commit basis: every Release of a committed action carries, for each
\* variable the transaction wrote, the iteration its LockGranted reported plus
\* one, and for each variable it locked without writing no entry beyond the
\* stamps it read.
CommitBasisBumpsWritten ==
    Committed =>
        \A s \in Releases :
            /\ \A a \in WrittenLocks :
                  latest(s.message.basis, a)
                     = lastH.tx.tx.state.locks[a].node_kind.iteration + 1
            /\ \A a \in DOMAIN lastH.tx.tx.state.locks \ WrittenLocks :
                  latest(s.message.basis, a)
                     = latest(merge_all(CommittedStamps), a)


\* the last step was a node applying the Release of the Exclusive holder that
\* had staged a configuration
UpdateReleased ==
    /\ ReleaseApplied
    /\ lastH.before.held.tag = "Exclusive"
    /\ lastH.before.held.exclusive.tag = "Update"

\* C19 - Version: a node's version is one more after it handles the Release of
\* a holder whose exclusive state is Update, and is what it was after every
\* other message it handles.
VersionByReconfigure ==
    (Stepped /\ lastH.node \in NodeAddrs)
        => lastH.after.version
              = lastH.before.version + (IF UpdateReleased THEN 1 ELSE 0)

\* a node that had been reconfigured before is reconfigured again
ReconfiguredAgain ==
    /\ UpdateReleased
    /\ lastH.before.version = 1
    /\ lastH.after.version = 2


\* the queue of updates the definition node st keeps for its input a
UpdatesOf(st, a) == st.definition.inputs[a].updates

\* every step of the definition node leaves the queued updates of every input
\* in place, and a Propagate from an input adds its value at the tail of that
\* input's queue (reactive.rs 441-451, definition.rs 100-106)
UpdatesAppended ==
    (Stepped /\ lastH.node = DefNode)
        => \A a \in DOMAIN lastH.before.definition.inputs :
              UpdatesOf(lastH.after, a)
                 = IF lastH.msg.type = "Propagate" /\ lastH.msg.sender = a
                   THEN Append(UpdatesOf(lastH.before, a), lastH.msg.value)
                   ELSE UpdatesOf(lastH.before, a)

\* two updates of the variable are queued at the definition
TwoUpdatesQueued == Len(UpdatesOf(nodes[DefNode], 1)) = 2


---------------------------------------------------------------------------
(* Admission of a Read, stated over the last handler step                  *)

\* the last step handled a Read from a holder of a Shared lock state
ReadHandled ==
    /\ Stepped
    /\ lastH.node \in NodeAddrs
    /\ lastH.msg.type = "Read"
    /\ shared(lastH.before.held, lastH.msg.txid).tag = "Some"

\* the node had a value whose basis dominates the basis of the Read on the
\* node's ancestor roots
ReadAdmissible ==
    /\ lastH.before.value.tag = "Some"
    /\ prec_eq_wrt_ancestors(lastH.msg.basis, lastH.before.value.basis,
                             my_ancestors(lastH.before))

\* the state of the read of the transaction after the last step
ReadAfter == shared(lastH.after.held, lastH.msg.txid).state.read

\* C21 - Read admission: a Read from a shared holder that finds a value whose
\* basis dominates the request basis on the node's ancestor roots is answered
\* at once with that value and marked Complete; only a Read that finds no such
\* value is recorded as Pending.
ReadAdmission ==
    ReadHandled =>
        IF ReadAdmissible
        THEN /\ ReadResults
                  = {ReadResult(lastH.msg.txid, lastH.node, lastH.before.value)}
             /\ ReadAfter = ReadComplete
        ELSE /\ ReadResults = {}
             /\ ReadAfter = ReadPending(lastH.msg.basis)


---------------------------------------------------------------------------
(* Reads that are cancelled.  The clients of this driver lock the first    *)
(* node, may ask for one read under the lock, and give the lock up with    *)
(* Release (after an optional Write under an Exclusive lock) or with       *)
(* Abort; a client answers a Preempt that names its held lock with Abort.  *)
(* Here cl records, per transaction and node, the phase of the lock and    *)
(* the kind of Read that was sent.                                         *)

CancelIdle == [phase |-> "idle", kind |-> "Shared", read |-> "None"]

\* transaction.rs 222-255 lock_inner: Lock is sent once per node
KLock(t, n, kind) ==
    /\ ~panicked
    /\ cl[t][n].phase = "idle"
    /\ cl' = [cl EXCEPT ![t][n] = [@ EXCEPT !.phase = "requested", !.kind = kind]]
    /\ queue' = Enqueue(queue, t.address, <<Send(n, Lock(t, kind))>>)
    /\ UNCHANGED <<nodes, actors, panicked, lastH, holding, preempts>>

\* transaction.rs 393-399: one Read under a held lock, with basis b
KRead(t, n, b) ==
    /\ ~panicked
    /\ cl[t][n].phase = "held"
    /\ cl[t][n].read = "None"
    /\ cl' = [cl EXCEPT ![t][n].read = IF is_empty(b) THEN "Empty" ELSE "Stamped"]
    /\ queue' = Enqueue(queue, t.address, <<Send(n, Read(t, b))>>)
    /\ UNCHANGED <<nodes, actors, panicked, lastH, holding, preempts>>

\* transaction.rs 117-140 finish_action: the Write of an Exclusive holder, if
\* any, and the Release with the commit basis
KCommit(t, n, writes, basis) ==
    /\ ~panicked
    /\ cl[t][n].phase = "held"
    /\ writes => cl[t][n].kind = "Exclusive"
    /\ cl' = [cl EXCEPT ![t][n].phase = "done"]
    /\ queue' = Enqueue(queue, t.address,
                        (IF writes THEN <<Send(n, Write(t, Integer(1)))>> ELSE <<>>)
                            \o <<Send(n, Release(t, basis))>>)
    /\ UNCHANGED <<nodes, actors, panicked, lastH, holding, preempts>>

\* the holder gives the lock up with Abort
KAbort(t, n) ==
    /\ ~panicked
    /\ cl[t][n].phase = "held"
    /\ cl' = [cl EXCEPT ![t][n].phase = "aborted"]
    /\ queue' = Enqueue(queue, t.address, <<Send(n, Abort(t))>>)
    /\ UNCHANGED <<nodes, actors, panicked, lastH, holding, preempts>>

\* actor.rs 90-104 with a client as the target: a grant is noted, a Preempt of
\* a held lock is answered with Abort
RunCancelClient ==
    /\ ~panicked
    /\ queue # <<>>
    /\ Head(queue).target \in actors \cap ClientAddrs
    /\ LET msg == Head(queue).message
       IN CASE msg.type = "LockGranted" ->
                 /\ cl' = [cl EXCEPT ![msg.txid][msg.address].phase = "held"]
                 /\ queue' = Tail(queue)
            [] msg.type = "Preempt"
                 /\ cl[msg.txid][Head(queue).sender].phase = "held" ->
                 /\ cl' = [cl EXCEPT ![msg.txid][Head(queue).sender].phase = "aborted"]
                 /\ queue' = Enqueue(Tail(queue), msg.txid.address,
                                     <<Send(Head(queue).sender, Abort(msg.txid))>>)
            [] OTHER -> cl' = cl /\ queue' = Tail(queue)
    /\ UNCHANGED <<nodes, actors, panicked, lastH, holding, preempts>>

InitCancel ==
    /\ nodes = InitNodes
    /\ actors = NodeAddrs \cup ClientAddrs
    /\ queue = <<>>
    /\ panicked = FALSE
    /\ cl = [t \in DataTxs |-> [n \in Contended |-> CancelIdle]]
    /\ lastH = NoHistory
    /\ holding = [n \in NodeAddrs |-> {}]
    /\ preempts = [n \in NodeAddrs |-> [t \in Txs |-> 0]]

NextCancel ==
    \/ \E t \in DataTxs, n \in Contended, kind \in Kinds : KLock(t, n, kind)
    \/ \E t \in DataTxs, n \in Contended, b \in Bases : KRead(t, n, b)
    \/ \E t \in DataTxs, n \in Contended, w \in BOOLEAN, b \in Bases : KCommit(t, n, w, b)
    \/ \E t \in DataTxs, n \in Contended : KAbort(t, n)
    \/ RunCancelClient
    \/ RunNode

SpecCancel == InitCancel /\ [][NextCancel]_vars

\* the transactions that hold a lock on node n after the last step
HoldersNow(n) == {h.txid : h \in holding[n]}

\* the last step handled the Abort of a holder whose read was pending
PendingReadAborted ==
    /\ Stepped
    /\ lastH.msg.type = "Abort"
    /\ ~lastH.panic
    /\ shared(lastH.before.held, lastH.msg.txid).tag = "Some"
    /\ shared(lastH.before.held, lastH.msg.txid).state.read.tag = "Pending"

\* C22 - Cancelled reads: the Abort of a holder with a Pending read removes the
\* holder and its read and sends it no ReadResult; every ReadResult a node
\* sends names a transaction that holds a lock on the node before and after
\* the step, so that no later value update answers the aborted transaction.
CancelledReads ==
    (Stepped /\ lastH.node \in NodeAddrs) =>
        /\ PendingReadAborted =>
              /\ lastH.msg.txid \notin Holders(lastH.after.held)
              /\ \A r \in ReadResults : r.txid # lastH.msg.txid
        /\ \A r \in ReadResults :
              /\ r.txid \in Holders(lastH.before.held)
              /\ r.txid \in Holders(lastH.after.held)
              /\ r.txid \in HoldersNow(lastH.node)
              /\ cl[r.txid][lastH.node].phase = "aborted"
                    => \E i \in DOMAIN queue : queue[i].message = Abort(r.txid)

\* a value update of a node that has handled the Abort of a transaction whose
\* Read it had left pending
UpdatedAfterCancel ==
    /\ Stepped
    /\ lastH.msg.type = "Release"
    /\ lastH.after.value # lastH.before.value
    /\ \E t \in DataTxs :
          /\ cl[t][lastH.node] = [phase |-> "aborted", kind |-> "Shared", read |-> "Stamped"]
          /\ t \notin HoldersNow(lastH.node)
          /\ \A i \in DOMAIN queue : queue[i].message # Abort(t)


---------------------------------------------------------------------------
(* The router alone: actor.rs System with actors of any kind.  An actor's  *)
(* handler may send messages to the addresses that exist, spawn an actor   *)
(* and retire; every message an actor sends carries the number of the      *)
(* send, counted over the whole system.  Here cl holds the address         *)
(* counter, the number of sends, and for each receiver and sender the      *)
(* number of the last message of that sender the receiver has handled.     *)

\* the most actors ever spawned, and the most messages ever sent
MaxActors == 3
MaxSends == 4
\* the most messages one handler sends
MaxReply == 2

RouterAddrs == 1 .. MaxActors

\* a message sent by an actor, the stamp-th send of the system
Note(stamp) == [type |-> "Note", stamp |-> stamp]

\* the sequences of at most n targets among the addresses of S
TargetSeqs(S, n) == UNION {[1 .. k -> S] : k \in 0 .. n}

\* actor.rs 134-141 Context::send of one Note to each target, in order, by the
\* actor me, the sends so far being clock
SendNotes(q, me, targets, clock) ==
    Enqueue(q, me, [i \in 1 .. Len(targets) |-> Send(targets[i], Note(clock + i))])

\* actor.rs 90-104 with any actor as the target: the handler sends, may spawn
\* (actor.rs 108-125) and may retire (actor.rs 149-151)
RunActor ==
    /\ queue # <<>>
    /\ Head(queue).target \in actors
    /\ \E spawns \in {s \in BOOLEAN : s => cl.counter < MaxActors}, retires \in BOOLEAN :
       \E targets \in TargetSeqs(1 .. (cl.counter + (IF spawns THEN 1 ELSE 0)), MaxReply) :
          LET me == Head(queue).target
              from == Head(queue).sender
              msg == Head(queue).message
          IN /\ cl.clock + Len(targets) <= MaxSends
             /\ queue' = SendNotes(Tail(queue), me, targets, cl.clock)
             /\ actors' = (actors \cup (IF spawns THEN {cl.counter + 1} ELSE {}))
                               \ (IF retires THEN {me} ELSE {})
             /\ cl' = [counter |-> cl.counter + (IF spawns THEN 1 ELSE 0),
                       clock |-> cl.clock + Len(targets),
                       seen |-> IF msg.type = "Note"
                                THEN [cl.seen EXCEPT ![me][from] = msg.stamp]
                                ELSE cl.seen]
             /\ lastH' = [tag |-> "Some", panic |-> FALSE, node |-> me, sender |-> from,
                          msg |-> msg, seen |-> cl.seen[me][from]]
    /\ UNCHANGED <<nodes, panicked, holding, preempts>>

\* actor.rs 62-68 and 108-125: the actors spawned before run() is called, some
\* of them retired in create, and the messages they sent in create
InitRouter ==
    /\ nodes = InitNodes
    /\ panicked = FALSE
    /\ lastH = NoHistory
    /\ holding = [n \in NodeAddrs |-> {}]
    /\ preempts = [n \in NodeAddrs |-> [t \in Txs |-> 0]]
    /\ \E c \in 2 .. MaxActors :
          /\ actors \in SUBSET (1 .. c)
          /\ \E pairs \in TargetSeqs((1 .. c) \X (1 .. c), MaxReply) :
                /\ queue = [i \in 1 .. Len(pairs) |->
                               [sender |-> pairs[i][1], target |-> pairs[i][2],
                                message |-> Note(i)]]
                /\ cl = [counter |-> c, clock |-> Len(pairs),
                         seen |-> [r \in RouterAddrs |-> [s \in RouterAddrs |-> 0]]]

NextRouter == RunActor \/ RunUnreachable

SpecRouter == InitRouter /\ [][NextRouter]_vars


\* the message at the head of the queue has a target that is not registered
Undeliverable == queue # <<>> /\ Head(queue).target \notin actors

\* C23 - Undeliverable messages: when the router dequeues a message m that is
\* not an Unreachable and whose target T is not registered, the next message
\* in the queue is Unreachable{m} from T to the sender of m, ahead of all that
\* was queued; when m is an Unreachable it is dropped and nothing is enqueued.
UndeliverableReturned ==
    [][Undeliverable =>
          IF Head(queue).message.type # "Unreachable"
          THEN /\ Head(queue') = [sender |-> Head(queue).target,
                                  target |-> Head(queue).sender,
                                  message |-> Unreachable(Head(queue).message)]
               /\ Tail(queue') = Tail(queue)
          ELSE queue' = Tail(queue)]_vars

\* an Unreachable stands at the head of the queue, ahead of queued messages
ReturnedAhead ==
    /\ Len(queue) > 1
    /\ Head(queue).message.type = "Unreachable"
    /\ Head(queue).sender \notin actors

\* an Unreachable whose target is not registered is about to be dropped
UnreachableDropped ==
    /\ Undeliverable
    /\ Head(queue).message.type = "Unreachable"


\* run() takes the next message whenever the queue is not empty
SpecRouterFair == SpecRouter /\ WF_vars(NextRouter)

\* the actor a was spawned and is no longer registered
Retired(a) == a <= cl.counter /\ a \notin actors

\* the positions of the queue that hold a message of type ty from a to b
Queued(a, b, ty) ==
    {i \in DOMAIN queue : /\ queue[i].sender = a
                          /\ queue[i].target = b
                          /\ queue[i].message.type = ty}

\* two retired actors with one message of each to the other in the queue
Crossfire(a, b) ==
    /\ a # b
    /\ Retired(a)
    /\ Retired(b)
    /\ Cardinality(Queued(a, b, "Note")) = 1
    /\ Cardinality(Queued(b, a, "Note")) = 1
    /\ Queued(a, b, "Unreachable") = {}
    /\ Queued(b, a, "Unreachable") = {}

\* what the messages of a to b can still cost the router: two dequeues for a
\* message, one for the Unreachable that answers it
Pending(a, b) ==
    2 * Cardinality(Queued(a, b, "Note")) + Cardinality(Queued(b, a, "Unreachable"))

\* no Unreachable in the queue wraps an Unreachable
NoNestedUnreachable ==
    \A i \in DOMAIN queue :
        queue[i].message.type = "Unreachable"
            => queue[i].message.message.type # "Unreachable"

\* C24 - Retire crossfire terminates: between two retired actors every queued
\* message is answered by at most one Unreachable (what is left to dequeue for
\* a direction never grows), no Unreachable wraps an Unreachable, and
\* from a crossfire the run reaches an empty queue.
CrossfireDrains ==
    /\ []NoNestedUnreachable
    /\ [][\A a, b \in RouterAddrs :
             (Retired(a) /\ Retired(b)) => Pending(a, b)' <= Pending(a, b)]_vars
    /\ \A a, b \in RouterAddrs : (Crossfire(a, b) ~> (queue = <<>>))

\* of two retired actors with a message of each to the other, the message of
\* one has been answered with an Unreachable that is about to be dropped, and
\* the message of the other is still queued
CrossfireReturned ==
    \E a, b \in RouterAddrs :
        /\ a # b
        /\ Retired(a)
        /\ Retired(b)
        /\ queue # <<>>
        /\ Head(queue).sender = b
        /\ Head(queue).target = a
        /\ Head(queue).message.type = "Unreachable"
        /\ Queued(b, a, "Note") # {}


\* the positions of the queue that hold a message sent by the actor s to r
SentTo(s, r) == Queued(s, r, "Note")

\* C25 - Pairwise FIFO: a receiver handles the messages of one sender in the
\* order in which the sender sent them: the message handled last was sent
\* after every message of that sender the receiver handled before, and the
\* messages of a sender still queued for a receiver stand in the order of
\* their sending, all of them sent after the ones already handled.
PairwiseFIFO ==
    /\ (lastH.tag = "Some" /\ lastH.msg.type = "Note")
          => /\ lastH.msg.stamp > lastH.seen
             /\ cl.seen[lastH.node][lastH.sender] = lastH.msg.stamp
    /\ \A s, r \in RouterAddrs :
          /\ \A i, j \in SentTo(s, r) :
                i < j => queue[i].message.stamp < queue[j].message.stamp
          /\ \A i \in SentTo(s, r) : queue[i].message.stamp > cl.seen[r][s]

\* a receiver has handled a second message of the same sender while a message
\* of another actor is queued and an actor has retired
SecondHandled ==
    /\ lastH.tag = "Some"
    /\ lastH.msg.type = "Note"
    /\ lastH.seen > 0
    /\ \E a \in RouterAddrs : Retired(a)
    /\ \E i \in DOMAIN queue : queue[i].sender # lastH.sender


---------------------------------------------------------------------------
(* Transactions that name a version a node does not have: the user submits *)
(* the actions of the manager driver and actions over the first variable   *)
(* at version 1, while every node is at version 0.                         *)

\* node a at a version it does not have
Stale(a) == VersionedAddress(a, 1)

\* a write to the stale first variable, alone and after a write to another
StaleActions ==
    {ActionWrite(Stale(1), ExprValue(Integer(1))),
     ActionSeq(ActionWrite(V(Other), ExprValue(Integer(2))),
               ActionWrite(Stale(1), ExprValue(Integer(3))))}

NextVersion ==
    \/ \E action \in Actions \cup StaleActions : CDo(action)
    \/ RunManager
    \/ RunNode

SpecVersion == InitMgr /\ [][NextVersion]_vars

\* the manager handled a LockGranted whose version is not the one the
\* transaction asked for
MismatchGranted ==
    /\ lastH.tag = "Some"
    /\ lastH.node = ManagerAddr
    /\ lastH.msg.type = "LockGranted"
    /\ lastH.msg.txid \in DOMAIN lastH.before.transactions
    /\ \E r \in {lastH.before.transactions[lastH.msg.txid].state.pending_locks} :
          /\ lastH.msg.address \in DOMAIN r
          /\ r[lastH.msg.address].tag = "Some"
          /\ r[lastH.msg.address].version # lastH.msg.version

\* C26 - Version mismatch is a transaction-level failure: when a lock asked for
\* with a version is granted with another version, the manager's handler does
\* not panic, the transaction sends Release with an empty basis to every node
\* on which it holds a lock (the node that granted the lock included) and no
\* Write, and the other transactions of the manager are kept.
VersionMismatchContained ==
    MismatchGranted =>
        /\ ~lastH.panic
        /\ \A a \in DOMAIN lastH.before.transactions[lastH.msg.txid].state.locks
                     \cup {lastH.msg.address} :
              \E i \in DOMAIN lastH.sent :
                  lastH.sent[i] = Send(a, Release(lastH.msg.txid, EmptyBasis))
        /\ \A i \in DOMAIN lastH.sent : lastH.sent[i].message.type # "Write"
        /\ \A t \in DOMAIN lastH.before.transactions \ {lastH.msg.txid} :
              /\ t \in DOMAIN lastH.after.transactions
              /\ lastH.after.transactions[t] = lastH.before.transactions[t]


\* the manager handled a Preempt that names one of its transactions
PreemptReceived ==
    /\ lastH.tag = "Some"
    /\ lastH.node = ManagerAddr
    /\ lastH.msg.type = "Preempt"
    /\ lastH.msg.txid \in DOMAIN lastH.before.transactions

\* C27 - Response to preemption: when the manager receives Preempt{txid} for
\* one of its transactions, the handler runs to its end, the transaction sends
\* Abort{txid} to every node on which it holds a lock, and it sends no Write
\* and no Release.
PreemptAnswered ==
    PreemptReceived =>
        /\ ~lastH.panic
        /\ \A a \in DOMAIN lastH.before.transactions[lastH.msg.txid].state.locks :
              \E i \in DOMAIN lastH.sent :
                  lastH.sent[i] = Send(a, Abort(lastH.msg.txid))
        /\ \A i \in DOMAIN lastH.sent :
              lastH.sent[i].message.type \notin {"Write", "Release"}


---------------------------------------------------------------------------
(* Writes and reconfigurations under one Exclusive lock: a client that is  *)
(* granted the lock on the first variable sends up to two operations, each *)
(* a Write or a Reconfigure, and then Release.                             *)

\* the operations of an Exclusive holder that stage a change
StagingOps(t) == {Write(t, Integer(1))} \cup {Reconfigure(t, c) : c \in Configs}

\* the sequences of at most two staging operations
StagingScripts(t) == UNION {[1 .. k -> StagingOps(t)] : k \in 0 .. 2}

\* actor.rs 90-104 with a client as the target
RunStagingClient ==
    /\ ~panicked
    /\ queue # <<>>
    /\ Head(queue).target \in actors \cap ClientAddrs
    /\ LET msg == Head(queue).message
       IN IF msg.type = "LockGranted"
          THEN \E script \in (IF cl[msg.txid][msg.address] = "Exclusive"
                              THEN StagingScripts(msg.txid) ELSE {<<>>}),
                  basis \in Bases :
                 /\ cl' = [cl EXCEPT ![msg.txid][msg.address] = "done"]
                 /\ queue' = Enqueue(Tail(queue), msg.txid.address,
                                     Transact(msg.txid, msg.address, script, basis))
          ELSE /\ cl' = cl
               /\ queue' = Tail(queue)
    /\ UNCHANGED <<nodes, actors, panicked, lastH, holding, preempts>>

NextStaging ==
    \/ \E t \in DataTxs, kind \in Kinds : DLock(t, 1, kind)
    \/ RunStagingClient
    \/ RunNode

SpecStaging == InitRound /\ [][NextStaging]_vars

\* the last step handled a Reconfigure of the Exclusive holder that had staged
\* a Write
ReconfigureAfterWrite ==
    /\ lastH.tag = "Some"
    /\ lastH.node \in NodeAddrs
    /\ lastH.msg.type = "Reconfigure"
    /\ exclusive(lastH.before.held, lastH.msg.txid).tag = "Some"
    /\ lastH.before.held.exclusive.tag = "Write"

\* C28 - Write then Reconfigure under one exclusive lock: the Reconfigure that
\* follows a staged Write is either rejected, or staged as a configuration
\* that holds the written value; the written value is not dropped.
WriteKeptOrRejected ==
    ReconfigureAfterWrite =>
        \/ lastH.panic
        \/ /\ lastH.after.held.exclusive.tag = "Update"
           /\ lastH.after.held.exclusive.configuration.tag = "Variable"
           /\ lastH.after.held.exclusive.configuration.value.value
                 = lastH.before.held.exclusive.value


---------------------------------------------------------------------------
(* BasisStamp::merge_from alone: three stamps are drawn over a bounded set *)
(* of roots and iterations, and one step merges them in the orders the     *)
(* laws of a join compare.  Here cl holds the stamps and the merges.       *)

\* the roots and the largest iteration of the stamps drawn
StampRoots == {1, 2}
MaxIteration == 2

\* the stamps over StampRoots: any subset of the roots, any iterations
Stamps == UNION {[S -> 0 .. MaxIteration] : S \in SUBSET StampRoots}

InitStamp ==
    /\ nodes = InitNodes
    /\ actors = {}
    /\ queue = <<>>
    /\ panicked = FALSE
    /\ lastH = NoHistory
    /\ holding = [n \in NodeAddrs |-> {}]
    /\ preempts = [n \in NodeAddrs |-> [t \in Txs |-> 0]]
    /\ \E a, b, c \in Stamps : cl = [merged |-> FALSE, a |-> a, b |-> b, c |-> c]

\* message.rs 140-144 applied in the orders of the three laws
MergeStamps ==
    /\ ~cl.merged
    /\ cl' = [merged |-> TRUE, a |-> cl.a, b |-> cl.b, c |-> cl.c,
              a_empty |-> merge_from(cl.a, EmptyBasis),
              a_b |-> merge_from(cl.a, cl.b),
              b_a |-> merge_from(cl.b, cl.a),
              a_bc |-> merge_from(cl.a, merge_from(cl.b, cl.c)),
              ab_c |-> merge_from(merge_from(cl.a, cl.b), cl.c)]
    /\ UNCHANGED <<nodes, actors, queue, panicked, lastH, holding, preempts>>

SpecStamp == InitStamp /\ [][MergeStamps]_vars

\* two stamps have the same latest iteration at every root
SameStamp(x, y) == \A r \in StampRoots : latest(x, r) = latest(y, r)

\* C29 - BasisStamp merge is a semilattice join: merging with the empty stamp
\* changes nothing, the merge of two stamps does not depend on their order,
\* and the merge of three does not depend on their grouping, stamps being
\* compared by latest at every root.
MergeIsJoin ==
    cl.merged =>
        /\ SameStamp(cl.a_empty, cl.a)
        /\ SameStamp(cl.a_b, cl.b_a)
        /\ SameStamp(cl.a_bc, cl.ab_c)

\* merged stamps that disagree on a root they share, one larger on one root and
\* the other on the other
CrossedStampsMerged ==
    /\ cl.merged
    /\ DOMAIN cl.a = StampRoots
    /\ DOMAIN cl.b = StampRoots
    /\ cl.a[1] > cl.b[1]
    /\ cl.a[2] < cl.b[2]
    /\ cl.c # EmptyBasis
    /\ cl.a_b = (1 :> cl.a[1]) @@ (2 :> cl.b[2])


---------------------------------------------------------------------------
(* The directory of a manager: directory.rs.  The state is a map from      *)
(* manager addresses to tombstone flags and a map from names to the        *)
(* entries registered under them; peers gossip states, and the manager     *)
(* merges each one into its own.  Here cl is the manager's DirectoryState. *)

\* DirectoryEntryState as directory.rs 80-96 matches it
Deleted == [tag |-> "Deleted"]
EntryExisting(iteration, address) ==
    [tag |-> "Existing", iteration |-> iteration, address |-> address]

\* message.rs Message::Directory
Directory(state) == [type |-> "Directory", state |-> state]

\* directory.rs 21-32 Directory::new and init, by the manager me
DirectoryNew(seed_peers, me) ==
    [managers |-> [p \in seed_peers \cup {me} |-> FALSE],
     nodes |-> [n \in {} |-> Deleted]]

\* directory.rs 47-64: the tombstone flags after the merge
merge_managers(local, new) ==
    [p \in DOMAIN local \cup DOMAIN new |->
        IF p \notin DOMAIN local THEN new[p]
        ELSE IF p \in DOMAIN new /\ new[p] /\ ~local[p] THEN TRUE
        ELSE local[p]]

\* directory.rs 52-55: the peers to introduce, in the order the incoming map
\* yields them
new_peers(local, new, order) ==
    SelectSeq(order, LAMBDA p : p \notin DOMAIN local /\ ~new[p])

\* merge_entry letting a live incoming entry replace a local tombstone
merge_entry_revived(new_node, old_node) ==
    CASE new_node.tag = "Deleted" -> Deleted
      [] old_node.tag = "Deleted" -> new_node
      [] OTHER -> IF new_node.iteration > old_node.iteration
                  THEN new_node ELSE old_node

\* directory.rs 80-97: an entry present on both sides
merge_entry(new_node, old_node) ==
    CASE old_node.tag = "Deleted" -> old_node
      [] new_node.tag = "Deleted" -> Deleted
      [] OTHER -> IF new_node.iteration > old_node.iteration
                  THEN new_node ELSE old_node

\* directory.rs 73-99: the entries of one name
merge_entries(old_nodes, new_nodes) ==
    [id \in DOMAIN old_nodes \cup DOMAIN new_nodes |->
        IF id \notin DOMAIN old_nodes THEN new_nodes[id]
        ELSE IF id \notin DOMAIN new_nodes THEN old_nodes[id]
        ELSE merge_entry(new_nodes[id], old_nodes[id])]

\* directory.rs 66-103
merge_nodes(local, new) ==
    [name \in DOMAIN local \cup DOMAIN new |->
        IF name \notin DOMAIN local THEN new[name]
        ELSE IF name \notin DOMAIN new THEN local[name]
        ELSE merge_entries(local[name], new[name])]

\* Directory::merge_and_update: [state, sent]
merge_and_update(state, new_state, order) ==
    With([managers |-> merge_managers(state.managers, new_state.managers),
          nodes |-> merge_nodes(state.nodes, new_state.nodes)], LAMBDA merged :
        [state |-> merged,
         sent |-> With(new_peers(state.managers, new_state.managers, order), LAMBDA ps :
                     [i \in 1 .. Len(ps) |-> Send(ps[i], Directory(merged))])])

\* the largest iteration of an entry in a gossiped state
MaxEntryIteration == 1

\* the peers, the names and the entry ids of the gossiped states
Peers == {1, 2}
Names == {"a"}
EntryIds == {1, 2}

\* the entries and the states a peer may gossip
\* an entry is registered at the first peer and moves to the next peer with
\* each iteration (directory.rs 155-174 update)
Entries ==
    {Deleted} \cup {EntryExisting(i, i + 1) : i \in 0 .. MaxEntryIteration}
GossipStates ==
    [managers : UNION {[S -> BOOLEAN] : S \in SUBSET Peers},
     nodes : UNION {[N -> UNION {[I -> Entries] : I \in SUBSET EntryIds}] :
                        N \in SUBSET Names}]

\* the peer p sends the manager its state
PeerGossip(p, state) ==
    /\ queue = <<>>
    /\ queue' = Enqueue(queue, p, <<Send(ManagerAddr, Directory(state))>>)
    /\ lastH' = NoHistory
    /\ UNCHANGED <<nodes, actors, panicked, cl, holding, preempts>>

\* actor.rs 90-104 with the manager as the target: old-manager.rs 80 hands the
\* state to merge_and_update
RunDirectory ==
    /\ queue # <<>>
    /\ Head(queue).target = ManagerAddr
    /\ Head(queue).message.type = "Directory"
    /\ \E order \in Orders(DOMAIN Head(queue).message.state.managers) :
       \E r \in {merge_and_update(cl, Head(queue).message.state, order)} :
          /\ cl' = r.state
          /\ queue' = Enqueue(Tail(queue), ManagerAddr, r.sent)
          /\ lastH' = [tag |-> "Some", panic |-> FALSE, node |-> ManagerAddr,
                       msg |-> Head(queue).message, before |-> cl, after |-> r.state,
                       sent |-> r.sent]
    /\ UNCHANGED <<nodes, actors, panicked, holding, preempts>>

\* actor.rs 90-104 with a peer as the target; what the peer does with the
\* state is its own business
RunPeer ==
    /\ queue # <<>>
    /\ Head(queue).target \in Peers
    /\ queue' = Tail(queue)
    /\ UNCHANGED <<nodes, actors, panicked, cl, lastH, holding, preempts>>

InitDirectory ==
    /\ nodes = InitNodes
    /\ actors = Peers \cup {ManagerAddr}
    /\ queue = <<>>
    /\ panicked = FALSE
    /\ lastH = NoHistory
    /\ holding = [n \in NodeAddrs |-> {}]
    /\ preempts = [n \in NodeAddrs |-> [t \in Txs |-> 0]]
    /\ \E seed_peers \in SUBSET Peers : cl = DirectoryNew(seed_peers, ManagerAddr)

NextDirectory ==
    \/ \E state \in GossipStates : PeerGossip(1, state)
    \/ RunDirectory
    \/ RunPeer

SpecDirectory == InitDirectory /\ [][NextDirectory]_vars

\* the manager p is tombstoned in the directory state d
ManagerDeleted(d, p) == p \in DOMAIN d.managers /\ d.managers[p]

\* the entry id of name is present in the directory state d
HasEntry(d, name, id) == name \in DOMAIN d.nodes /\ id \in DOMAIN d.nodes[name]

\* the entry id of name is tombstoned in the directory state d
EntryDeleted(d, name, id) == HasEntry(d, name, id) /\ d.nodes[name][id].tag = "Deleted"

\* the entry id of name is live in the directory state d
EntryLive(d, name, id) == HasEntry(d, name, id) /\ d.nodes[name][id].tag = "Existing"

\* the last step was a merge
Merged == lastH.tag = "Some" /\ lastH.node = ManagerAddr /\ lastH.msg.type = "Directory"

\* C30 - Directory merge keeps tombstones and maxima: after a merge, a manager
\* or an entry tombstoned in the local state or in the incoming state is
\* tombstoned, and an entry live in both has the larger of the two iterations;
\* as every merge keeps the local tombstones, none becomes live again.
MergeKeepsTombstones ==
    Merged =>
        /\ \A p \in Peers \cup {ManagerAddr} :
              (ManagerDeleted(lastH.before, p) \/ ManagerDeleted(lastH.msg.state, p))
                  => ManagerDeleted(lastH.after, p)
        /\ \A name \in Names, id \in EntryIds :
              /\ (EntryDeleted(lastH.before, name, id)
                    \/ EntryDeleted(lastH.msg.state, name, id))
                    => EntryDeleted(lastH.after, name, id)
              /\ (EntryLive(lastH.before, name, id)
                    /\ EntryLive(lastH.msg.state, name, id))
                    => /\ EntryLive(lastH.after, name, id)
                       /\ lastH.after.nodes[name][id].iteration
                             = Max(lastH.before.nodes[name][id].iteration,
                                   lastH.msg.state.nodes[name][id].iteration)
                       /\ lastH.after.nodes[name][id]
                             \in {lastH.before.nodes[name][id],
                                  lastH.msg.state.nodes[name][id]}
        /\ lastH.after = cl

\* a merge in which one entry was live locally and tombstoned in the incoming
\* state, another was live on both sides with the larger iteration incoming,
\* and a manager was tombstoned locally and live in the incoming state
TombstoneAndMaximumMerged ==
    /\ Merged
    /\ \E name \in Names, id, other \in EntryIds :
          /\ EntryLive(lastH.before, name, id)
          /\ EntryDeleted(lastH.msg.state, name, id)
          /\ EntryLive(lastH.before, name, other)
          /\ EntryLive(lastH.msg.state, name, other)
          /\ lastH.msg.state.nodes[name][other].iteration
                > lastH.before.nodes[name][other].iteration
    /\ \E p \in Peers :
          /\ ManagerDeleted(lastH.before, p)
          /\ p \in DOMAIN lastH.msg.state.managers
          /\ ~lastH.msg.state.managers[p]

---------------------------------------------------------------------------
(* Two managers gossiping their directories: directory.rs create, update,  *)
(* disseminate_state and merge_and_update over the router.  Here cl.dir is *)
(* the DirectoryState of each manager and cl.last the last merge of each.  *)

\* the number of updates an entry may take, and the length of the queue up to
\* which a manager is called
MaxGossipIteration == 1
MaxGossipQueue == 2

\* the two managers, the peer outside that may leave, and the addresses an
\* entry may point to
Gossipers == {1, 2}
Leaver == Cardinality(Gossipers) + 1
EntryAddrs == {1, 2}

\* directory.rs 176-189 disseminate_state; order is the order in which the map
\* of managers yields its keys
disseminate_state(state, me, order) ==
    With(SelectSeq(order, LAMBDA p : ~state.managers[p] /\ p # me), LAMBDA ps :
        [i \in 1 .. Len(ps) |-> Send(ps[i], Directory(state))])

\* the entries of name in state: directory.rs 131-135 inserts an empty map
entries_of(state, name) ==
    IF name \in DOMAIN state.nodes THEN state.nodes[name] ELSE [id \in {} |-> Deleted]

\* the state with the entry id of name set to entry
with_entry(state, name, id, entry) ==
    [state EXCEPT !.nodes =
        [n \in DOMAIN state.nodes \cup {name} |->
            IF n = name
            THEN [i \in DOMAIN entries_of(state, name) \cup {id} |->
                    IF i = id THEN entry ELSE entries_of(state, name)[i]]
            ELSE state.nodes[n]]]

\* directory.rs 130-153 Directory::create: [state, sent, panic]
create(state, name, address, txid, me, order) ==
    IF \A id \in DOMAIN entries_of(state, name) : entries_of(state, name)[id].tag = "Deleted"
    THEN With(with_entry(state, name, txid, EntryExisting(0, address)), LAMBDA s :
            [state |-> s, sent |-> disseminate_state(s, me, order), panic |-> FALSE])
    ELSE [state |-> state, sent |-> <<>>, panic |-> TRUE]

\* directory.rs 155-174 Directory::update: [state, sent, panic]
update(state, name, entry_id, new_address, me, order) ==
    IF \/ name \notin DOMAIN state.nodes
       \/ entry_id \notin DOMAIN state.nodes[name]
       \/ state.nodes[name][entry_id].tag # "Existing"
    THEN [state |-> state, sent |-> <<>>, panic |-> TRUE]
    ELSE With(with_entry(state, name, entry_id,
                  EntryExisting(state.nodes[name][entry_id].iteration + 1, new_address)),
              LAMBDA s :
            [state |-> s, sent |-> disseminate_state(s, me, order), panic |-> FALSE])

\* a call of the directory by the manager m with the outcome r
Called(m, op, r) ==
    /\ cl' = [cl EXCEPT !.dir[m] = r.state]
    /\ queue' = Enqueue(queue, m, r.sent)
    /\ panicked' = r.panic
    /\ lastH' = [tag |-> "Some", panic |-> r.panic, node |-> m, op |-> op,
                 before |-> cl.dir[m], after |-> r.state, sent |-> r.sent]
    /\ UNCHANGED <<nodes, actors, holding, preempts>>

\* the manager m registers name at its own address under its own entry id
GossipCreate(m) ==
    /\ ~panicked
    /\ Len(queue) < MaxGossipQueue
    /\ \E name \in Names, order \in Orders(DOMAIN cl.dir[m].managers) :
          Called(m, "create", create(cl.dir[m], name, m, m, m, order))

\* the manager m moves an entry it knows to a new address
GossipUpdate(m) ==
    /\ ~panicked
    /\ Len(queue) < MaxGossipQueue
    /\ \E name \in Names, id \in EntryIds, address \in EntryAddrs,
          order \in Orders(DOMAIN cl.dir[m].managers) :
          /\ HasEntry(cl.dir[m], name, id)
          /\ cl.dir[m].nodes[name][id].tag = "Existing"
                => cl.dir[m].nodes[name][id].iteration < MaxGossipIteration
          /\ Called(m, "update", update(cl.dir[m], name, id, address, m, order))

\* the peer outside announces that it has left
GossipLeave(m) ==
    /\ ~panicked
    /\ ~cl.left
    /\ Len(queue) < MaxGossipQueue
    /\ queue' = Enqueue(queue, Leaver,
                    <<Send(m, Directory([managers |-> [p \in {Leaver} |-> TRUE],
                                         nodes |-> [n \in {} |-> Deleted]]))>>)
    /\ cl' = [cl EXCEPT !.left = TRUE]
    /\ lastH' = NoHistory
    /\ UNCHANGED <<nodes, actors, panicked, holding, preempts>>

\* actor.rs 90-104 with a manager as the target: manager.rs 142 hands the
\* Directory message to Directory::handle, directory.rs 34-42
RunGossip ==
    /\ ~panicked
    /\ queue # <<>>
    /\ Head(queue).target \in Gossipers
    /\ \E m \in {Head(queue).target} :
       \E order \in Orders(DOMAIN Head(queue).message.state.managers) :
       \E r \in {merge_and_update(cl.dir[m], Head(queue).message.state, order)} :
          /\ cl' = [cl EXCEPT !.dir[m] = r.state,
                              !.last[m] = [tag |-> "Some", before |-> cl.dir[m],
                                           incoming |-> Head(queue).message.state]]
          /\ queue' = Enqueue(Tail(queue), m, r.sent)
          /\ lastH' = [tag |-> "Some", panic |-> FALSE, node |-> m, op |-> "merge",
                       before |-> cl.dir[m], after |-> r.state, sent |-> r.sent]
    /\ UNCHANGED <<nodes, actors, panicked, holding, preempts>>

\* actor.rs 90-104 with the peer outside as the target
RunLeaver ==
    /\ ~panicked
    /\ queue # <<>>
    /\ Head(queue).target = Leaver
    /\ queue' = Tail(queue)
    /\ lastH' = NoHistory
    /\ UNCHANGED <<nodes, actors, panicked, cl, holding, preempts>>

\* manager.rs 72 and 138: each manager is seeded with some of the others
InitGossip ==
    /\ nodes = InitNodes
    /\ actors = Gossipers \cup {Leaver}
    /\ queue = <<>>
    /\ panicked = FALSE
    /\ lastH = NoHistory
    /\ holding = [n \in NodeAddrs |-> {}]
    /\ preempts = [n \in NodeAddrs |-> [t \in Txs |-> 0]]
    /\ \E seeds \in [Gossipers -> SUBSET (Gossipers \cup {Leaver})] :
          cl = [dir |-> [m \in Gossipers |-> DirectoryNew(seeds[m] \ {m}, m)],
                last |-> [m \in Gossipers |-> NoHistory],
                left |-> FALSE]

NextGossip ==
    \/ \E m \in Gossipers : GossipCreate(m)
    \/ \E m \in Gossipers : GossipUpdate(m)
    \/ \E m \in Gossipers : GossipLeave(m)
    \/ RunGossip
    \/ RunLeaver

SpecGossip == InitGossip /\ [][NextGossip]_vars

\* the state the manager m holds after merging the state d
MergedInto(m, d) == merge_and_update(cl.dir[m], d, <<>>).state

\* each manager's last merge took in the state the other held before its own
\* last merge or holds now, and neither has changed its state since
Exchanged ==
    /\ \A m \in Gossipers : cl.last[m].tag = "Some"
    /\ \A m \in Gossipers : \E o \in Gossipers \ {m} :
          /\ cl.last[m].incoming \in {cl.last[o].before, cl.dir[o]}
          /\ cl.dir[m] = merge_and_update(cl.last[m].before, cl.last[m].incoming, <<>>).state

\* C31 - Directory convergence: merging is idempotent and commutative on the
\* states the managers hold, and two managers that have each merged the
\* other's state hold equal states.
DirectoryConverges ==
    /\ \A m \in Gossipers : MergedInto(m, cl.dir[m]) = cl.dir[m]
    /\ \A m, o \in Gossipers : MergedInto(m, cl.dir[o]) = MergedInto(o, cl.dir[m])
    /\ Exchanged => \A m, o \in Gossipers : cl.dir[m] = cl.dir[o]

\* the last step changed the directory state of a manager
DirectoryChanged ==
    /\ lastH.tag = "Some"
    /\ ~lastH.panic
    /\ lastH.before # lastH.after

\* the full state went from the manager of the last step to exactly the peers
\* it does not hold as tombstoned, itself excluded
Disseminated ==
    /\ \A i \in DOMAIN lastH.sent : lastH.sent[i].message = Directory(lastH.after)
    /\ {lastH.sent[i].target : i \in DOMAIN lastH.sent}
          = {p \in DOMAIN lastH.after.managers : ~lastH.after.managers[p]} \ {lastH.node}
    /\ \A i \in 1 .. Len(lastH.sent) :
          queue[Len(queue) - Len(lastH.sent) + i]
             = [sender |-> lastH.node, target |-> lastH.sent[i].target,
                message |-> lastH.sent[i].message]

\* a create or an update that changed the state of a manager who knows a
\* tombstoned peer and a live one
LocalChangeWithTombstone ==
    /\ DirectoryChanged
    /\ lastH.op \in {"create", "update"}
    /\ ManagerDeleted(lastH.after, Leaver)
    /\ lastH.sent # <<>>

\* a merge that changed the entries of a manager and introduced no peer
MergeChangedEntries ==
    /\ DirectoryChanged
    /\ lastH.op = "merge"
    /\ lastH.before.nodes # lastH.after.nodes
    /\ DOMAIN lastH.before.managers = DOMAIN lastH.after.managers

\* C32 - Directory dissemination: every step that changes a manager's
\* directory state, be it a create, an update or the merge of an incoming
\* Directory message, sends the full new state to every peer the manager does
\* not hold as tombstoned, itself excluded.
DisseminatesOnChange == DirectoryChanged => Disseminated

---------------------------------------------------------------------------
(* Holders that give up.  The clients of this driver lock the first node,  *)
(* send up to MaxStaged operations under the lock and end with Release or  *)
(* with Abort.  Here cl is the phase of each transaction on the node and    *)
(* what the LockGranted it received reported.                              *)

\* the number of operations a holder stages before it releases or aborts
MaxStaged == 2

\* the operations a holder may stage: those of the data clients, Retire under
\* an Exclusive lock, and the subscription of the definition together with
\* the end of the subscription of the other node
UndoOps(t, kind) ==
    (IF kind = "Exclusive" THEN ExclusiveOps(t) \cup {Retire(t)} ELSE SharedOps(t))
        \cup {UpdateSubscriptions(t, (Other :> FALSE) @@ (DefNode :> TRUE))}

\* the sequences of at most MaxStaged operations of S
UndoScripts(S) == UNION {[1 .. k -> S] : k \in 0 .. MaxStaged}

\* transaction.rs 222-255 lock_inner: Lock is sent once per node
ULock(t, n, kind) ==
    /\ ~panicked
    /\ cl[t][n].phase = "idle"
    /\ cl' = [cl EXCEPT ![t][n].phase = kind]
    /\ queue' = Enqueue(queue, t.address, <<Send(n, Lock(t, kind))>>)
    /\ UNCHANGED <<nodes, actors, panicked, lastH, holding, preempts>>

\* actor.rs 90-104 with a client as the target: at the grant the client keeps
\* the version and the node kind reported (transaction.rs 164-173), sends its
\* operations and then gives the lock up
RunUndoClient ==
    /\ ~panicked
    /\ queue # <<>>
    /\ Head(queue).target \in actors \cap ClientAddrs
    /\ LET msg == Head(queue).message
       IN IF msg.type = "LockGranted"
          THEN \E script \in UndoScripts(UndoOps(msg.txid, cl[msg.txid][msg.address].phase)),
                  last \in {Release(msg.txid, b) : b \in Bases} \cup {Abort(msg.txid)} :
                 /\ cl' = [cl EXCEPT ![msg.txid][msg.address] =
                                [phase |-> "done",
                                 granted |-> [tag |-> "Some", version |-> msg.version,
                                              node_kind |-> msg.node_kind]]]
                 /\ queue' = Enqueue(Tail(queue), msg.txid.address,
                                     [i \in 1 .. Len(script) + 1 |->
                                        IF i <= Len(script)
                                        THEN Send(msg.address, script[i])
                                        ELSE Send(msg.address, last)])
          ELSE /\ cl' = cl
               /\ queue' = Tail(queue)
    /\ UNCHANGED <<nodes, actors, panicked, lastH, holding, preempts>>

InitUndo ==
    /\ nodes = InitNodes
    /\ actors = NodeAddrs \cup ClientAddrs
    /\ queue = <<>>
    /\ panicked = FALSE
    /\ cl = [t \in DataTxs |-> [n \in Contended |-> [phase |-> "idle", granted |-> None]]]
    /\ lastH = NoHistory
    /\ holding = [n \in NodeAddrs |-> {}]
    /\ preempts = [n \in NodeAddrs |-> [t \in Txs |-> 0]]

NextUndo ==
    \/ \E t \in DataTxs, n \in Contended, kind \in Kinds : ULock(t, n, kind)
    \/ RunUndoClient
    \/ RunNode

SpecUndo == InitUndo /\ [][NextUndo]_vars

\* the last step handled the Abort of a holder
AbortHandled ==
    /\ Stepped
    /\ lastH.msg.type = "Abort"

\* the node of the last step without its lock tables
Content(st) == [st EXCEPT !.held = HeldNone, !.queued = [t \in {} |-> "Shared"]]

\* C33 - Abort leaves no trace: the Abort of a holder leaves the node's value,
\* reads stamp, subscribers, version, iteration and definition as they were
\* and keeps the node in the router; the holder and whatever it staged are
\* gone from the held locks; nothing is sent but the LockGranted and Preempt
\* messages of grant_locks, and the node is as grant_locks leaves it once the
\* holder is removed.
AbortLeavesNoTrace ==
    AbortHandled =>
        /\ Content(lastH.after) = Content(lastH.before)
        /\ ~lastH.retired
        /\ lastH.node \in actors
        /\ shared(lastH.after.held, lastH.msg.txid).tag = "None"
        /\ \A i \in DOMAIN lastH.sent :
              lastH.sent[i].message.type \in {"LockGranted", "Preempt"}
        /\ \E r \in {grant_locks(
                        [lastH.before EXCEPT !.held =
                            IF @.tag = "Shared" THEN without_shared(@, lastH.msg.txid)
                            ELSE HeldNone], lastH.node)} :
              /\ lastH.after = r.st
              /\ lastH.sent = r.sent

\* the Abort of an Exclusive holder that had staged a change of the node and
\* a change of its subscribers, handled while another request waited and was
\* granted
StagedAbortHandled ==
    /\ AbortHandled
    /\ lastH.before.held.tag = "Exclusive"
    /\ lastH.before.held.exclusive.tag # "Unchanged"
    /\ DOMAIN lastH.before.held.shared.subscription_updates # {}
    /\ Grants(lastH.sent) # {}

---------------------------------------------------------------------------
(* Actions that read what they write.  The user submits actions whose      *)
(* write targets are also read, directly or through the definition, before *)
(* or after the write, and the upgrades of SpecMgr; the manager and the     *)
(* nodes are those of SpecMgr.                                             *)

\* the actions the user submits: a variable written with its own value, a
\* variable read for another write and written afterwards, a variable
\* written with the value of the definition it feeds, and the actions of
\* SpecMgr
ReadWriteActions ==
    {ActionWrite(V(1), ExprRead(V(1))),
     ActionSeq(ActionWrite(V(Other), ExprRead(V(1))),
               ActionWrite(V(1), ExprValue(Integer(2)))),
     ActionWrite(V(1), ExprRead(V(DefNode)))} \cup Actions

NextWrites ==
    \/ \E action \in ReadWriteActions : CDo(action)
    \/ \E upgrade \in Upgrades : CUpgrade(upgrade)
    \/ RunNode
    \/ RunManager

SpecWrites == InitMgr /\ [][NextWrites]_vars

\* the last step was the manager's handler of a Do
DoHandled ==
    /\ lastH.tag = "Some"
    /\ lastH.node = ManagerAddr
    /\ lastH.msg.type = "Do"

\* the last step was a node's handler of a Write, whether it panicked or not
WriteHandled ==
    /\ lastH.tag = "Some"
    /\ lastH.node \in NodeAddrs
    /\ lastH.msg.type = "Write"

\* the Lock messages among the messages of sent to the node a
LocksSentTo(sent, a) ==
    {sent[i].message.kind : i \in {j \in DOMAIN sent :
                                      sent[j].target = a /\ sent[j].message.type = "Lock"}}

\* C34 - Writes go under Exclusive locks: the first evaluation of an action
\* asks for every write target with one Lock of kind Exclusive, whatever the
\* action reads; every Write the manager sends goes to a node on which the
\* transaction holds a lock; and a node that handles a Write holds the sender
\* as its Exclusive holder, the lock having been requested Exclusive.
WritesUnderExclusive ==
    /\ DoHandled =>
          \A i \in DOMAIN visit_writes(lastH.msg.action) :
             LocksSentTo(lastH.sent, visit_writes(lastH.msg.action)[i].address.address)
                = {"Exclusive"}
    /\ (lastH.tag = "Some" /\ lastH.node = ManagerAddr /\ lastH.tx.tag = "Some") =>
          \A i \in DOMAIN lastH.sent :
             lastH.sent[i].message.type = "Write"
                => lastH.sent[i].target \in DOMAIN lastH.tx.tx.state.locks
    /\ WriteHandled =>
          /\ exclusive(lastH.before.held, lastH.msg.txid).tag = "Some"
          /\ [txid |-> lastH.msg.txid, kind |-> "Exclusive"] \in holding[lastH.node]

\* a node handled the Write of a transaction whose Read of the same node it
\* had answered under the same lock
WrittenAfterRead ==
    /\ WriteHandled
    /\ ~lastH.panic
    /\ lastH.before.held.tag = "Exclusive"
    /\ lastH.before.held.shared.read.tag = "Complete"

---------------------------------------------------------------------------
(* The order of the grants                                                 *)

\* C35 - Grants follow TxId order: every request grant_locks grants is older
\* than every request it leaves queued on the node, so the requests granted
\* are the oldest ones of the queue it found; a Shared request younger than a
\* waiting Exclusive request stays queued even when every holder is Shared.
GrantsInOrder ==
    RanGrantLocks =>
        /\ Granted \subseteq DOMAIN EntryQueued
        /\ DOMAIN lastH.after.queued = DOMAIN EntryQueued \ Granted
        /\ \A g \in Granted, t \in DOMAIN lastH.after.queued : TxLt(g, t)
        /\ \A e, s \in DOMAIN EntryQueued :
              (/\ EntryQueued[e] = "Exclusive"
               /\ TxLt(e, s)
               /\ EntryHolders # {}) => s \notin Granted

\* grant_locks ran on the Lock of a Shared request with every holder Shared and
\* an older Exclusive request waiting, and left the Shared request queued
YoungerSharedHeldBack ==
    /\ RanGrantLocks
    /\ lastH.msg.type = "Lock"
    /\ lastH.msg.kind = "Shared"
    /\ lastH.before.held.tag = "Shared"
    /\ \E e \in DOMAIN lastH.before.queued :
          /\ lastH.before.queued[e] = "Exclusive"
          /\ TxLt(e, lastH.msg.txid)
    /\ lastH.msg.txid \in DOMAIN lastH.after.queued

---------------------------------------------------------------------------
(* The isolation of a variable from the transactions that do not hold it   *)

\* the last step was a handler of a node that was a variable
VariableHandled ==
    /\ lastH.tag = "Some"
    /\ lastH.node \in NodeAddrs
    /\ lastH.before.definition.tag = "None"

\* what the LockGranted of the sender of the last message reported
GrantOfSender == cl[lastH.msg.txid][lastH.node].granted

\* C36 - Isolation of variables: the value, the iteration and the version of a
\* variable change only in the handler of the Release of its Exclusive
\* holder, and when a node handles the Read, the Write, the Release or the
\* Abort of a holder, its version and, for a variable, its iteration are those
\* the holder's LockGranted reported.
VariableIsolated ==
    /\ (/\ VariableHandled
        /\ \/ lastH.after.value # lastH.before.value
           \/ lastH.after.iteration # lastH.before.iteration
           \/ lastH.after.version # lastH.before.version
           \/ lastH.after.definition # lastH.before.definition)
          => /\ lastH.msg.type = "Release"
             /\ lastH.before.held.tag = "Exclusive"
             /\ lastH.before.held.txid = lastH.msg.txid
    /\ (/\ Stepped
        /\ lastH.node \in NodeAddrs
        /\ lastH.msg.type \in {"Read", "Write", "Release", "Abort"})
          => /\ GrantOfSender.tag = "Some"
             /\ GrantOfSender.version = lastH.before.version
             /\ GrantOfSender.node_kind = node_kind(lastH.before)

\* the Release of a holder that wrote, granted the lock at the iteration an
\* earlier transaction's write had left, and raising the version or value
WrittenInTurn ==
    /\ Stepped
    /\ lastH.msg.type = "Release"
    /\ lastH.before.held.tag = "Exclusive"
    /\ lastH.before.held.exclusive.tag = "Write"
    /\ lastH.before.iteration > 0
    /\ GrantOfSender.node_kind = KindVariable(lastH.before.iteration)
    /\ lastH.after.value # lastH.before.value

---------------------------------------------------------------------------
(* One Lock per transaction and node                                       *)

\* the positions of the queue that hold the Lock of transaction t for node a
LocksInFlight(t, a) ==
    {i \in DOMAIN queue : /\ queue[i].target = a
                          /\ queue[i].message.type = "Lock"
                          /\ queue[i].message.txid = t}

\* the requests of transaction t that node a has yet to answer or holds granted
Asked(t, a) ==
    Cardinality(LocksInFlight(t, a))
        + (IF t \in DOMAIN nodes[a].queued THEN 1 ELSE 0)
        + (IF t \in Holders(nodes[a].held) THEN 1 ELSE 0)

\* the transaction ids the manager may mint: old-manager.rs 39-43 and 53-57
Minted ==
    {[priority |-> p, timestamp |-> k, address |-> ManagerAddr] :
        p \in {High, Low}, k \in 1 .. MaxDo}

\* the last step was a handler of the manager that evaluated a transaction
Evaluated ==
    /\ lastH.tag = "Some"
    /\ lastH.node = ManagerAddr
    /\ lastH.tx.tag = "Some"

\* C37 - One Lock per node: a node has at most one request of a transaction in
\* flight, queued or held; a transaction the manager still drives has one
\* exactly on the nodes of its pending and held locks; an evaluation sends no
\* Lock to a node whose lock was pending or held before it, and none twice,
\* and forgets no lock; and no node finds a Lock it handles already queued or
\* held.
OneLockPerNode ==
    /\ DOMAIN cl.manager.transactions \subseteq Minted
    /\ \A t \in Minted, a \in NodeAddrs : Asked(t, a) <= 1
    /\ \A t \in DOMAIN cl.manager.transactions, a \in NodeAddrs :
          With(cl.manager.transactions[t].state, LAMBDA state :
             /\ Asked(t, a) <= 1
             /\ Asked(t, a) = 1 <=> a \in DOMAIN state.pending_locks \cup DOMAIN state.locks)
    /\ Evaluated =>
          \A i \in DOMAIN lastH.sent :
             lastH.sent[i].message.type = "Lock" =>
                /\ \A j \in DOMAIN lastH.sent :
                      (lastH.sent[j].target = lastH.sent[i].target
                         /\ lastH.sent[j].message.type = "Lock") => j = i
                /\ lastH.sent[i].message.txid \in DOMAIN lastH.before.transactions =>
                      With(lastH.before.transactions[lastH.sent[i].message.txid].state,
                           LAMBDA state :
                              lastH.sent[i].target
                                 \notin DOMAIN state.pending_locks \cup DOMAIN state.locks)
    /\ Evaluated =>
          \A t \in DOMAIN lastH.before.transactions \cap DOMAIN lastH.after.transactions :
             DOMAIN lastH.before.transactions[t].state.pending_locks
                   \cup DOMAIN lastH.before.transactions[t].state.locks
                \subseteq DOMAIN lastH.after.transactions[t].state.pending_locks
                             \cup DOMAIN lastH.after.transactions[t].state.locks
    /\ (lastH.tag = "Some" /\ lastH.node \in NodeAddrs /\ lastH.msg.type = "Lock") =>
          /\ ~lastH.panic
          /\ lastH.msg.txid \notin DOMAIN lastH.before.queued
          /\ lastH.msg.txid \notin Holders(lastH.before.held)

\* an evaluation after a grant that came upon a node whose lock was held and
\* upon a node whose lock was still pending, and sent no Lock
LockedNodesRevisited ==
    /\ Evaluated
    /\ ~lastH.panic
    /\ lastH.msg.type = "LockGranted"
    /\ lastH.tx.tx.kind.tag = "Action"
    /\ lastH.tx.tx.kind.action.tag # "Nil"
    /\ DOMAIN lastH.tx.tx.state.pending_locks # {}
    /\ DOMAIN lastH.tx.tx.state.locks # {}
    /\ \A i \in DOMAIN lastH.sent : lastH.sent[i].message.type # "Lock"

---------------------------------------------------------------------------
(* One ReadResult per Read                                                 *)

\* the positions of the queue that hold a message of the given type of
\* transaction t to or from node a
InFlight(ty, t, a) ==
    {i \in DOMAIN queue :
        /\ queue[i].message.type = ty
        /\ queue[i].message.txid = t
        /\ IF ty = "ReadResult" THEN queue[i].message.address = a
           ELSE queue[i].target = a}

\* the reads of transaction t that node a has yet to answer, or whose answer
\* the manager has yet to receive
Outstanding(t, a) ==
    Cardinality(InFlight("Read", t, a))
        + Cardinality(InFlight("ReadResult", t, a))
        + (IF /\ shared(nodes[a].held, t).tag = "Some"
              /\ shared(nodes[a].held, t).state.read.tag = "Pending"
           THEN 1 ELSE 0)

\* the last step was the manager's handler of a ReadResult
ReadResultReceived ==
    /\ lastH.tag = "Some"
    /\ lastH.node = ManagerAddr
    /\ lastH.msg.type = "ReadResult"

\* C38 - ReadResult meets a pending read: the manager receives a ReadResult
\* only for a transaction it drives whose lock on the address is read-Pending;
\* at any time a transaction has at most one Read or ReadResult outstanding on
\* a node, and exactly one when its lock there is read-Pending; and an
\* evaluation sends a Read only over a lock that had neither a value nor a
\* Read outstanding.
ReadResultMeetsPending ==
    /\ ReadResultReceived =>
          /\ lastH.msg.txid \in DOMAIN lastH.before.transactions
          /\ lastH.msg.address
                \in DOMAIN lastH.before.transactions[lastH.msg.txid].state.locks
          /\ lastH.before.transactions[lastH.msg.txid].state.locks[lastH.msg.address].value
                = LockValueNone("Pending")
    /\ \A t \in Minted, a \in NodeAddrs : Outstanding(t, a) <= 1
    /\ \A t \in DOMAIN cl.manager.transactions, a \in NodeAddrs :
          With(cl.manager.transactions[t].state, LAMBDA state :
             Outstanding(t, a) = 1
                <=> (a \in DOMAIN state.locks
                        /\ state.locks[a].value = LockValueNone("Pending")))
    /\ Evaluated =>
          \A i \in DOMAIN lastH.sent :
             lastH.sent[i].message.type = "Read" =>
                /\ \A j \in DOMAIN lastH.sent :
                      (lastH.sent[j].target = lastH.sent[i].target
                         /\ lastH.sent[j].message.type = "Read") => j = i
                /\ With(lastH.before.transactions, LAMBDA txs :
                      (/\ lastH.sent[i].message.txid \in DOMAIN txs
                       /\ lastH.sent[i].target
                             \in DOMAIN txs[lastH.sent[i].message.txid].state.locks)
                         => txs[lastH.sent[i].message.txid].state.locks[lastH.sent[i].target].value
                               = LockValueNone("None"))

\* the manager received the ReadResult of a read that had been outstanding
\* while the transaction held another lock, and took the value
ReadResultTaken ==
    /\ ReadResultReceived
    /\ ~lastH.panic
    /\ Cardinality(DOMAIN lastH.before.transactions[lastH.msg.txid].state.locks) > 1
    /\ lastH.tx.tx.state.locks[lastH.msg.address].value.tag = "Some"

---------------------------------------------------------------------------
(* Requests left at a node that retires                                    *)

\* the last step handled the Release of a holder that had staged Retire
RetiredAtRelease ==
    /\ Stepped
    /\ lastH.msg.type = "Release"
    /\ lastH.retired

\* the positions of the queue that hold an answer for transaction t about its
\* Lock on node n: a LockGranted, or the Lock returned as Unreachable
AnswersInFlight(t, n) ==
    {i \in DOMAIN queue :
        \/ /\ queue[i].message.type = "LockGranted"
           /\ queue[i].message.txid = t
           /\ queue[i].message.address = n
        \/ /\ queue[i].message.type = "Unreachable"
           /\ queue[i].sender = n
           /\ queue[i].message.message.type = "Lock"
           /\ queue[i].message.message.txid = t}

\* C39 - Retirement strands waiters: the Release of a holder that staged
\* Retire takes the node out of the router, sends nothing and leaves the
\* queued requests where they were; a request queued at a retired node stays
\* queued, no LockGranted and no Unreachable for it is in the queue, and its
\* transaction goes on waiting; every Unreachable in the queue comes from an
\* actor that is gone and returns a message to its sender.
RetirementStrandsWaiters ==
    /\ RetiredAtRelease =>
          /\ lastH.before.held.tag = "Exclusive"
          /\ lastH.before.held.exclusive = RetireState
          /\ lastH.sent = <<>>
          /\ lastH.after.queued = lastH.before.queued
          /\ lastH.node \notin actors
    /\ \A n \in NodeAddrs \ actors :
          /\ nodes[n].held = HeldNone
          /\ \A t \in DOMAIN nodes[n].queued :
                /\ AnswersInFlight(t, n) = {}
                /\ cl[t][n].phase = "requested"
    /\ \A i \in DOMAIN queue :
          queue[i].message.type = "Unreachable" =>
             /\ queue[i].sender \notin actors
             /\ queue[i].message.message.type # "Unreachable"
             /\ queue[i].message.message.txid.address = queue[i].target
             /\ queue[i].message.message.txid \notin DOMAIN nodes[queue[i].sender].queued

\* a node retired with a request queued, and a Lock that reached the router
\* afterwards is on its way back as Unreachable
StrandedAndReturned ==
    /\ RetiredAtRelease
    /\ DOMAIN lastH.before.queued # {}
    /\ \E i \in DOMAIN queue :
          /\ queue[i].message.type = "Unreachable"
          /\ queue[i].sender = lastH.node
          /\ queue[i].message.message.type = "Lock"

---------------------------------------------------------------------------
(* Subscription changes                                                    *)

\* the last step was a node's handler of a Release
ReleaseHandled ==
    /\ Stepped
    /\ lastH.node \in NodeAddrs
    /\ lastH.msg.type = "Release"

\* what the sender of the last message had staged on the node
StagedBy == shared(lastH.before.held, lastH.msg.txid).state

\* the nodes the last step sent a Propagate to
PropagatedTo ==
    {lastH.sent[i].target : i \in {j \in DOMAIN lastH.sent :
                                      lastH.sent[j].message.type = "Propagate"}}

\* C40 - Subscription changes take effect at Release and after that Release's
\* own value update: UpdateSubscriptions only adds its changes to what the
\* holder has staged and leaves the subscribers, the value and the router
\* alone; a Release leaves the subscribers it found changed by what the
\* holder staged, and the Propagate of a value it installs goes to the
\* subscribers it found, so not to one the holder added and still to one the
\* holder removed; every other handler, Abort among them, leaves the
\* subscribers as they were, and after an Abort nothing staged remains.
SubscriptionsAtRelease ==
    /\ (Stepped /\ lastH.node \in NodeAddrs /\ lastH.msg.type = "UpdateSubscriptions") =>
          /\ Content(lastH.after) = Content(lastH.before)
          /\ lastH.sent = <<>>
          /\ lastH.after.held =
                set_shared(lastH.before.held, lastH.msg.txid,
                    [StagedBy EXCEPT !.subscription_updates = lastH.msg.changes @@ @])
    /\ ReleaseHandled =>
          /\ lastH.after.subscribers =
                apply_subscription_updates(lastH.before.subscribers,
                                           StagedBy.subscription_updates)
          /\ PropagatedTo \in {{}, lastH.before.subscribers}
          /\ (lastH.before.held.tag = "Exclusive"
                /\ lastH.before.held.exclusive.tag = "Write") =>
                PropagatedTo = lastH.before.subscribers
          /\ (lastH.before.held.tag = "Shared"
                \/ lastH.before.held.exclusive.tag \in {"Unchanged", "Retire"}) =>
                PropagatedTo = {}
    /\ (Stepped /\ lastH.node \in NodeAddrs /\ lastH.msg.type # "Release") =>
          lastH.after.subscribers = lastH.before.subscribers
    /\ AbortHandled => shared(lastH.after.held, lastH.msg.txid).tag = "None"

\* the Release of a holder that wrote the node, subscribed one node and
\* unsubscribed another: the new value went to the node it unsubscribed and
\* not to the node it subscribed
ReleasedWithSubscriptions ==
    /\ ReleaseHandled
    /\ lastH.before.held.tag = "Exclusive"
    /\ lastH.before.held.exclusive.tag = "Write"
    /\ \E a, b \in DOMAIN StagedBy.subscription_updates :
          /\ StagedBy.subscription_updates[a]
          /\ ~StagedBy.subscription_updates[b]
          /\ a \notin lastH.before.subscribers
          /\ b \in lastH.before.subscribers
          /\ a \in lastH.after.subscribers
          /\ b \notin lastH.after.subscribers
          /\ b \in PropagatedTo
          /\ a \notin PropagatedTo

=============================================================================
